---- MODULE Spec2Model ----
(***************************************************************************)
(* rich-soup: the block-normalization and classification pipeline.         *)
(*                                                                         *)
(* Texts are sequences of one-character strings, so that the str methods   *)
(* the code uses (strip, split, lower, join, the `in` substring test) are  *)
(* computed and not assumed.  Ratios (thresholds, multipliers) are whole   *)
(* percents and a mean is kept as (sum, count), so that every comparison   *)
(* of the code is made exactly, by cross-multiplication.                   *)
(***************************************************************************)
EXTENDS Integers, Sequences, FiniteSets, Bags, TLC

VARIABLES
    config,         \* src.common.utils.config.config as src.processor.core sees it
    \* reading_order
    ro_in,          \* the RawBlockArray given to reading_order
    ro_out,         \* the RawBlockArray the latest call returned
    ro_prev,        \* the array the latest call was given
    ro_calls,       \* number of calls made so far
    \* post filters
    fl_blocks,      \* the list[BlockItem] the filters are given and mutate
    fl_before,      \* its content before the latest filter call
    fl_last,        \* the filter called on it ("none" before the call)
    \* _handle_text_block
    tx_block,       \* the raw text block given
    tx_metrics,     \* the PageMetrics given
    tx_result,      \* the list of ParagraphBlock returned
    tx_done,        \* whether the call has been made
    \* _process_blocks
    pb_metrics,         \* the PageMetrics given
    header_threshold,   \* the header_threshold given
    footer_threshold,   \* the footer_threshold given
    pb_blocks,          \* the list[BlockItem] being built
    tracker,            \* the _DuplicateTracker of the run
    pending,            \* the paragraphs of the current text block still to be looped over
    n_raw,              \* number of raw blocks taken so far
    gh_headings,        \* history: the heading candidates met, not blank and free of skip patterns
    gh_deleted,         \* history: the blocks deleted from the list
    gh_skipped,         \* history: the places, in the array, of the raw blocks skipped as header or footer
    gh_dropped,         \* history: the candidate paragraphs dropped, each with the number of blocks deleted before it
    gh_tables,          \* history: the rows of the raw tables taken outside the header and footer regions
    \* extract_blocks
    ex_raw,             \* the RawBlockArray given
    ex_ordered,         \* raw_blocks after reading_order
    ex_pc,              \* position of the run: "idle", "construct", "start", "process", "done"
    ex_result,          \* the ParsedBlocks returned
    \* bold classification under two thresholds
    bd_raw,             \* the RawBlockArray classified
    bd_lo,              \* the smaller bold_threshold
    bd_hi,              \* the larger bold_threshold
    bd_bold_lo,         \* number of bold paragraphs under bd_lo
    bd_bold_hi,         \* number of bold paragraphs under bd_hi
    bd_done,            \* whether the collection has been classified
    \* markdown of one table
    tb_rows,            \* the rows of the TableBlock rendered
    tb_md,              \* the markdown string returned
    tb_done,            \* whether markdown has been read
    \* src.common.utils.config
    cm_config,          \* the global config of the module src.common.utils.config
    cm_imported,        \* whether src.processor.core has been imported
    cm_set,             \* whether set_config has been called
    \* markdown of two lists of equal blocks
    rd_blocks,          \* the blocks of both ParsedBlocks objects
    rd_first,           \* the markdown of the first object
    rd_second,          \* the markdown of the second object
    rd_count,           \* how many of the two have been rendered
    \* _should_skip_paragraph
    sk_pb,              \* the candidate paragraph
    sk_tracker,         \* the tracker given
    sk_result,          \* the value returned
    sk_done,            \* whether the call has been made
    \* several runs of extract_blocks
    rn_raw,             \* for each run, the RawBlockArray it is given
    rn_trackers,        \* the _DuplicateTracker objects created so far
    rn_lists,           \* the list objects created so far
    rn_ref,             \* for each run, the places of its tracker and of its list among the objects
    rn_pos,             \* for each run, the number of raw blocks it has taken
    rn_pc,              \* for each run, its position: "start", "process", "done"
    \* _determine_heading_level alone
    hd_block,           \* the raw text block given
    hd_table,           \* config.header_thresholds, its items in the order they are stored
    hd_level,           \* the level returned
    hd_done,            \* whether the call has been made
    \* the markdown property of a ParsedBlocks document
    ch_blocks,          \* the list of the document, doc.blocks
    ch_cache,           \* what cached_property keeps for markdown in the instance
    ch_read,            \* the string the latest read of doc.markdown returned
    ch_reads,           \* number of reads made so far
    ch_filtered,        \* whether filter_blocks(doc.blocks) has been called
    ch_last             \* the latest operation: "none", "read", "filter"

orderVars == <<ro_in, ro_out, ro_prev, ro_calls>>
filterVars == <<fl_blocks, fl_before, fl_last>>
textVars == <<tx_block, tx_metrics, tx_result, tx_done>>
procVars == <<pb_metrics, header_threshold, footer_threshold, pb_blocks, tracker, pending, n_raw,
              gh_headings, gh_deleted, gh_skipped, gh_dropped, gh_tables>>
extractVars == <<ex_raw, ex_ordered, ex_pc, ex_result>>
boldVars == <<bd_raw, bd_lo, bd_hi, bd_bold_lo, bd_bold_hi, bd_done>>
tableVars == <<tb_rows, tb_md, tb_done>>
configVars == <<cm_config, cm_imported, cm_set>>
renderVars == <<rd_blocks, rd_first, rd_second, rd_count>>
skipVars == <<sk_pb, sk_tracker, sk_result, sk_done>>
runsVars == <<rn_raw, rn_trackers, rn_lists, rn_ref, rn_pos, rn_pc>>
headingVars == <<hd_block, hd_table, hd_level, hd_done>>
cacheVars == <<ch_blocks, ch_cache, ch_read, ch_reads, ch_filtered, ch_last>>
earlierVars == <<orderVars, filterVars, textVars, procVars, extractVars>>
laterVars == <<boldVars, tableVars, configVars, renderVars, skipVars, runsVars, headingVars, cacheVars>>
vars == <<config, earlierVars, laterVars>>

(***************************************************************************)
(* Bounds of the model.                                                    *)
(***************************************************************************)
MaxOrderLen == 3    \* raw blocks in an array given to reading_order
MaxY == 2           \* largest top-y of a raw block given to reading_order
MaxTol == 1         \* largest reading_order_y_tolerance tried
MaxCalls == 2       \* calls of reading_order in a row

(***************************************************************************)
(* Python's str methods on sequences of characters.                        *)
(***************************************************************************)
IsSpace(c) == c \in {" ", "\n", "\t"}

UpperLetters ==
    <<"A", "B", "C", "D", "E", "F", "G", "H", "I", "J", "K", "L", "M",
      "N", "O", "P", "Q", "R", "S", "T", "U", "V", "W", "X", "Y", "Z">>

LowerLetters ==
    <<"a", "b", "c", "d", "e", "f", "g", "h", "i", "j", "k", "l", "m",
      "n", "o", "p", "q", "r", "s", "t", "u", "v", "w", "x", "y", "z">>

LowerChar(c) ==
    IF \E i \in DOMAIN UpperLetters : UpperLetters[i] = c
    THEN LowerLetters[CHOOSE i \in DOMAIN UpperLetters : UpperLetters[i] = c]
    ELSE c

RECURSIVE lower(_)
lower(s) == IF s = <<>> THEN <<>> ELSE <<LowerChar(Head(s))>> \o lower(Tail(s))

RECURSIVE lstrip(_)
lstrip(s) ==
    IF s = <<>> THEN <<>>
    ELSE IF IsSpace(Head(s)) THEN lstrip(Tail(s)) ELSE s

RECURSIVE rstrip(_)
rstrip(s) ==
    IF s = <<>> THEN <<>>
    ELSE IF IsSpace(s[Len(s)]) THEN rstrip(SubSeq(s, 1, Len(s) - 1)) ELSE s

strip(s) == rstrip(lstrip(s))

\* s.split(): the maximal runs of non-whitespace characters
RECURSIVE splitWords(_, _)
splitWords(s, cur) ==
    IF s = <<>> THEN (IF cur = <<>> THEN <<>> ELSE <<cur>>)
    ELSE IF IsSpace(Head(s))
         THEN (IF cur = <<>> THEN <<>> ELSE <<cur>>) \o splitWords(Tail(s), <<>>)
         ELSE splitWords(Tail(s), Append(cur, Head(s)))

split(s) == splitWords(s, <<>>)

\* s.split(sep) for a non-empty separator: every piece, empty ones included
RECURSIVE splitSep(_, _, _)
splitSep(s, sep, cur) ==
    IF s = <<>> THEN <<cur>>
    ELSE IF Len(s) >= Len(sep) /\ SubSeq(s, 1, Len(sep)) = sep
         THEN <<cur>> \o splitSep(SubSeq(s, Len(sep) + 1, Len(s)), sep, <<>>)
         ELSE splitSep(Tail(s), sep, Append(cur, Head(s)))

splitOn(s, sep) == splitSep(s, sep, <<>>)

\* sep.join(parts)
RECURSIVE join(_, _)
join(sep, parts) ==
    IF parts = <<>> THEN <<>>
    ELSE IF Len(parts) = 1 THEN parts[1]
    ELSE parts[1] \o sep \o join(sep, Tail(parts))

\* sub in s
contains(sub, s) ==
    \E i \in 0..(Len(s) - Len(sub)) : SubSeq(s, i + 1, i + Len(sub)) = sub

\* s.replace(old, "") for a one-character old
RECURSIVE removeChar(_, _)
removeChar(s, c) ==
    IF s = <<>> THEN <<>>
    ELSE IF Head(s) = c THEN removeChar(Tail(s), c)
    ELSE <<Head(s)>> \o removeChar(Tail(s), c)

\* " ".join(s.split())
collapse(s) == join(<<" ">>, split(s))

\* " ".join(text.lower().split()): the normalized text of the duplicate checks
normalize(text) == collapse(lower(text))

(***************************************************************************)
(* reading_order                                                           *)
(***************************************************************************)
\* the sort keys of reading_order, as key(a) <= key(b); bbox is (x0, y0, x1, y1)
\*   "yx": key=lambda b: (b.bbox[1], b.bbox[0])      "x": key=lambda b: b.bbox[0]
\* the left-to-right key compared strictly: the sort of a line then puts a block
\* before the blocks of equal left-x that came before it
keyLessEq_strictX(key, a, b) ==
    IF key = "yx"
    THEN \/ a.bbox[2] < b.bbox[2]
         \/ a.bbox[2] = b.bbox[2] /\ a.bbox[1] <= b.bbox[1]
    ELSE a.bbox[1] < b.bbox[1]

keyLessEq(key, a, b) ==
    IF key = "yx"
    THEN \/ a.bbox[2] < b.bbox[2]
         \/ a.bbox[2] = b.bbox[2] /\ a.bbox[1] <= b.bbox[1]
    ELSE a.bbox[1] <= b.bbox[1]

\* sorted(s, key=...): a stable insertion sort
RECURSIVE insertSorted(_, _, _)
insertSorted(x, s, key) ==
    IF s = <<>> THEN <<x>>
    ELSE IF keyLessEq(key, s[Len(s)], x) THEN Append(s, x)
    ELSE Append(insertSorted(x, SubSeq(s, 1, Len(s) - 1), key), s[Len(s)])

RECURSIVE sorted(_, _)
sorted(s, key) ==
    IF s = <<>> THEN <<>>
    ELSE insertSorted(s[Len(s)], sorted(SubSeq(s, 1, Len(s) - 1), key), key)

abs(n) == IF n < 0 THEN 0 - n ELSE n

\* the loop, the top-y of a block compared with that of the first block of the
\* line: last_y is left as it is when the block joins the line
RECURSIVE orderLoop_anchor(_, _, _)
orderLoop_anchor(blocks, st, y_tol) ==
    IF blocks = <<>> THEN st
    ELSE LET block == Head(blocks)
             y == block.bbox[2]
             next == IF st.last_y = -1 \/ abs(y - st.last_y) <= y_tol
                     THEN [st EXCEPT !.current_line = Append(@, block),
                                     !.last_y = IF @ = -1 THEN y ELSE @]
                     ELSE [result |-> st.result \o sorted(st.current_line, "x"),
                           current_line |-> <<block>>,
                           last_y |-> y]
         IN orderLoop_anchor(Tail(blocks), next, y_tol)

\* the loop over the sorted blocks: st = [result, current_line, last_y]
\* (last_y = -1 stands for None: no top-y of the model is negative)
RECURSIVE orderLoop(_, _, _)
orderLoop(blocks, st, y_tol) ==
    IF blocks = <<>> THEN st
    ELSE LET block == Head(blocks)
             y == block.bbox[2]
             next == IF st.last_y = -1 \/ abs(y - st.last_y) <= y_tol
                     THEN [st EXCEPT !.current_line = Append(@, block), !.last_y = y]
                     ELSE [result |-> st.result \o sorted(st.current_line, "x"),
                           current_line |-> <<block>>,
                           last_y |-> y]
         IN orderLoop(Tail(blocks), next, y_tol)

\* reading_order without the flush of the last line
reading_order_noFlush(raw_blocks, cfg) ==
    LET blocks == sorted(raw_blocks.blocks, "yx")
        st == orderLoop(blocks,
                        [result |-> <<>>, current_line |-> <<>>, last_y |-> -1],
                        cfg.reading_order_y_tolerance)
    IN [url |-> raw_blocks.url, blocks |-> st.result]

reading_order(raw_blocks, cfg) ==
    LET blocks == sorted(raw_blocks.blocks, "yx")
        st == orderLoop(blocks,
                        [result |-> <<>>, current_line |-> <<>>, last_y |-> -1],
                        cfg.reading_order_y_tolerance)
        result == IF st.current_line # <<>>
                  THEN st.result \o sorted(st.current_line, "x")
                  ELSE st.result
    IN [url |-> raw_blocks.url, blocks |-> result]

(***************************************************************************)
(* Inputs of the reading_order specification.                              *)
(***************************************************************************)
SeqsUpTo(S, n) == UNION {[1..k -> S] : k \in 0..n}

Urls == {"u1", "u2"}

\* raw blocks that differ in place and in kind only
OrderBlocks ==
    {[type |-> t, bbox |-> <<x, y, x + 60, y + 10>>] :
        t \in {"image", "table"}, x \in {0, 5}, y \in 0..MaxY}

\* a Config; ratios in percent, header_thresholds as the dict's items in order
DefaultConfig ==
    [reading_order_y_tolerance |-> 1,
     small_text_threshold |-> 65,
     bold_threshold |-> 35,
     header_threshold |-> 2,
     footer_threshold |-> 98,
     skip_patterns |-> <<>>,
     header_thresholds |-> <<<<1, 200>>, <<2, 150>>>>]

OrderConfigs == {[DefaultConfig EXCEPT !.reading_order_y_tolerance = t] : t \in 0..MaxTol}

IdleOrder ==
    /\ ro_in = [url |-> "", blocks |-> <<>>]
    /\ ro_out = ro_in
    /\ ro_prev = ro_in
    /\ ro_calls = 0

IdleFilter ==
    /\ fl_blocks = <<>>
    /\ fl_before = <<>>
    /\ fl_last = "none"

IdleText ==
    /\ tx_block = <<>>
    /\ tx_metrics = <<>>
    /\ tx_result = <<>>
    /\ tx_done = FALSE

\* _DuplicateTracker()
NewTracker ==
    [seen_texts |-> {}, text_to_index |-> <<>>, seen_images |-> {}, seen_tables |-> {}]

IdleProc ==
    /\ pb_metrics = <<>>
    /\ header_threshold = 0
    /\ footer_threshold = 0
    /\ pb_blocks = <<>>
    /\ tracker = NewTracker
    /\ pending = <<>>
    /\ n_raw = 0
    /\ gh_headings = <<>>
    /\ gh_deleted = <<>>
    /\ gh_skipped = {}
    /\ gh_dropped = <<>>
    /\ gh_tables = <<>>

IdleExtract ==
    /\ ex_raw = <<>>
    /\ ex_ordered = <<>>
    /\ ex_pc = "idle"
    /\ ex_result = <<>>

IdleBold ==
    /\ bd_raw = <<>>
    /\ bd_lo = 0
    /\ bd_hi = 0
    /\ bd_bold_lo = 0
    /\ bd_bold_hi = 0
    /\ bd_done = FALSE

IdleTable ==
    /\ tb_rows = <<>>
    /\ tb_md = <<>>
    /\ tb_done = FALSE

IdleConfig ==
    /\ cm_config = DefaultConfig
    /\ cm_imported = FALSE
    /\ cm_set = FALSE

IdleRender ==
    /\ rd_blocks = <<>>
    /\ rd_first = <<>>
    /\ rd_second = <<>>
    /\ rd_count = 0

IdleSkip ==
    /\ sk_pb = <<>>
    /\ sk_tracker = NewTracker
    /\ sk_result = FALSE
    /\ sk_done = FALSE

IdleRuns ==
    /\ rn_raw = <<>>
    /\ rn_trackers = <<>>
    /\ rn_lists = <<>>
    /\ rn_ref = <<>>
    /\ rn_pos = <<>>
    /\ rn_pc = <<>>

IdleHeading ==
    /\ hd_block = <<>>
    /\ hd_table = <<>>
    /\ hd_level = 0
    /\ hd_done = FALSE

IdleCache ==
    /\ ch_blocks = <<>>
    /\ ch_cache = [set |-> FALSE, value |-> <<>>]
    /\ ch_read = <<>>
    /\ ch_reads = 0
    /\ ch_filtered = FALSE
    /\ ch_last = "none"

IdleEarlier ==
    /\ IdleOrder
    /\ IdleFilter
    /\ IdleText
    /\ IdleProc
    /\ IdleExtract

IdleLater ==
    /\ IdleBold
    /\ IdleTable
    /\ IdleConfig
    /\ IdleRender
    /\ IdleSkip
    /\ IdleRuns
    /\ IdleHeading
    /\ IdleCache

InitOrder ==
    /\ IdleLater
    /\ IdleExtract
    /\ IdleProc
    /\ IdleFilter
    /\ IdleText
    /\ config \in OrderConfigs
    /\ ro_in \in {[url |-> u, blocks |-> b] : u \in Urls, b \in SeqsUpTo(OrderBlocks, MaxOrderLen)}
    /\ ro_out = ro_in
    /\ ro_prev = ro_in
    /\ ro_calls = 0

\* one call of reading_order, on the array the previous call returned
ReadingOrder ==
    /\ ro_calls < MaxCalls
    /\ ro_prev' = ro_out
    /\ ro_out' = reading_order(ro_out, config)
    /\ ro_calls' = ro_calls + 1
    /\ UNCHANGED <<config, ro_in, filterVars, textVars, procVars, extractVars, laterVars>>

NextOrder == ReadingOrder

SpecOrder == InitOrder /\ [][NextOrder]_vars

\* the multiset of the elements of a sequence
BagOfSeq(s) ==
    LET range == {s[i] : i \in DOMAIN s}
    IN [x \in range |-> Cardinality({i \in DOMAIN s : s[i] = x})]

\* C4: reading_order returns an array with the same multiset of blocks as the
\* array it was given, and the same url, for every array and every tolerance.
C4_SetPreservation ==
    ro_calls >= 1 =>
        /\ BagOfSeq(ro_out.blocks) = BagOfSeq(ro_prev.blocks)
        /\ BagOfSeq(ro_out.blocks) = BagOfSeq(ro_in.blocks)
        /\ ro_out.url = ro_prev.url
        /\ ro_out.url = ro_in.url

\* a call that reordered an array holding the same block twice
C4_Witness ==
    /\ ro_calls = 1
    /\ ro_out.blocks # ro_in.blocks
    /\ \E i, j \in DOMAIN ro_in.blocks : i # j /\ ro_in.blocks[i] = ro_in.blocks[j]

\* C5: reading_order is idempotent: a second call on the array the first call
\* returned gives back the same order, ties and chained lines included.
C5_Idempotent ==
    ro_calls >= 2 => ro_out.blocks = ro_prev.blocks

\* the second call was made on a reordered array that is one line chained over
\* more than the tolerance, with two different blocks tied in left-x
C5_Witness ==
    /\ ro_calls = 2
    /\ ro_out.blocks # ro_in.blocks
    /\ Len(ro_out.blocks) = 3
    /\ config.reading_order_y_tolerance = 1
    /\ {ro_out.blocks[i].bbox[2] : i \in 1..3} = {0, 1, 2}
    /\ \E i, j \in 1..3 :
          /\ i # j
          /\ ro_out.blocks[i] # ro_out.blocks[j]
          /\ ro_out.blocks[i].bbox[1] = ro_out.blocks[j].bbox[1]
    /\ \E i \in 1..2 : ro_out.blocks[i].bbox[2] > ro_out.blocks[i + 1].bbox[2]


(***************************************************************************)
(* Post filters (src/processor/post_filters.py)                            *)
(***************************************************************************)
MaxFilterLen == 3       \* blocks in a list given to the filters

\* pycountry.languages, cut to four entries; the last has no alpha_2
PycountryLanguages ==
    { [alpha_2 |-> <<"d", "e">>, name |-> <<"G", "e", "r", "m", "a", "n">>],
      [alpha_2 |-> <<"e", "s">>, name |-> <<"S", "p", "a", "n", "i", "s", "h">>],
      [alpha_2 |-> <<"e", "n">>, name |-> <<"E", "n", "g", "l", "i", "s", "h">>],
      [name |-> <<"K", "l", "i", "n", "g", "o", "n">>] }

\* unicodedata.normalize("NFKD", s).encode("ascii", "ignore").decode("ascii"):
\* an accented letter keeps its base letter, any other non-ASCII character is
\* dropped.  "n~" is n with tilde; "U+65E5", "U+672C", "U+8A9E" are the three
\* characters of the Japanese name of Japanese; "U+2192" is an arrow.
asciiFoldChar(c) ==
    CASE c = "n~" -> <<"n">>
      [] c \in {"U+65E5", "U+672C", "U+8A9E", "U+2192"} -> <<>>
      [] OTHER -> <<c>>

RECURSIVE asciiFold(_)
asciiFold(s) ==
    IF s = <<>> THEN <<>> ELSE asciiFoldChar(Head(s)) \o asciiFold(Tail(s))

ISO_LANG_CODES ==
    {lower(lang.alpha_2) : lang \in {l \in PycountryLanguages : "alpha_2" \in DOMAIN l}}

\* LANG_NAMES before the loop that adds the normalized names
LANG_NAMES_listed ==
    {lower(lang.name) : lang \in {l \in PycountryLanguages : "name" \in DOMAIN l}}
        \cup {<<"D", "e", "u", "t", "s", "c", "h">>, <<"E", "s", "p", "a", "n", "o", "l">>, <<"U+65E5", "U+672C", "U+8A9E">>}

LANG_NAMES ==
    LANG_NAMES_listed \cup {lower(strip(asciiFold(name))) : name \in LANG_NAMES_listed}

\* s.strip("/")
RECURSIVE stripSlashes(_)
stripSlashes(s) ==
    IF s = <<>> THEN <<>>
    ELSE IF Head(s) = "/" THEN stripSlashes(Tail(s))
    ELSE IF s[Len(s)] = "/" THEN stripSlashes(SubSeq(s, 1, Len(s) - 1))
    ELSE s

\* s.find(c): the first position of c in s, 0 if there is none
findChar(s, cs) ==
    IF \E i \in DOMAIN s : s[i] \in cs
    THEN CHOOSE i \in DOMAIN s : s[i] \in cs /\ \A j \in 1..(i - 1) : s[j] \notin cs
    ELSE 0

IsSchemeChar(c) ==
    \/ \E i \in DOMAIN LowerLetters : c = LowerLetters[i] \/ c = UpperLetters[i]
    \/ c \in {"0", "1", "2", "3", "4", "5", "6", "7", "8", "9", "+", "-", "."}

IsLetter(c) == \E i \in DOMAIN LowerLetters : c = LowerLetters[i] \/ c = UpperLetters[i]

\* urlparse(url).path: the scheme, the netloc, the fragment and the query cut off
urlparsePath(url) ==
    LET colon == findChar(url, {":"})
        hasScheme == /\ colon > 1
                     /\ IsLetter(url[1])
                     /\ \A i \in 1..(colon - 1) : IsSchemeChar(url[i])
        u1 == IF hasScheme THEN SubSeq(url, colon + 1, Len(url)) ELSE url
        afterSlashes == SubSeq(u1, 3, Len(u1))
        netlocEnd == findChar(afterSlashes, {"/", "?", "#"})
        u2 == IF Len(u1) >= 2 /\ u1[1] = "/" /\ u1[2] = "/"
              THEN (IF netlocEnd = 0 THEN <<>>
                    ELSE SubSeq(afterSlashes, netlocEnd, Len(afterSlashes)))
              ELSE u1
        hash == findChar(u2, {"#"})
        u3 == IF hash = 0 THEN u2 ELSE SubSeq(u2, 1, hash - 1)
        query == findChar(u3, {"?"})
    IN IF query = 0 THEN u3 ELSE SubSeq(u3, 1, query - 1)

is_lang_path_segment(segment0) ==
    LET segment == lower(segment0)
    IN IF contains(<<"-">>, segment)
       THEN splitOn(segment, <<"-">>)[1] \in ISO_LANG_CODES
       ELSE segment \in ISO_LANG_CODES

\* the span loop of remove_language_links: whether some span deletes the block
spanIsLanguageName(span) ==
    LET filtered == lower(strip(asciiFold(span.text)))
    IN (IF filtered # <<>> THEN filtered ELSE span.text) \in LANG_NAMES

\* the body of the loop of remove_language_links: whether blocks[idx] is deleted
languageLinkDeleted(block) ==
    /\ block.type = "link"
    /\ LET href == lower(block.href)
           path_segment0 == splitOn(stripSlashes(urlparsePath(href)), <<"/">>)[1]
           path_segment == lower(asciiFold(path_segment0))
       IN /\ path_segment0 # <<>>
          /\ \/ is_lang_path_segment(path_segment)
             \/ \E i \in DOMAIN block.spans : spanIsLanguageName(block.spans[i])

\* del blocks[idx]
delAt(blocks, idx) == SubSeq(blocks, 1, idx - 1) \o SubSeq(blocks, idx + 1, Len(blocks))

\* for idx, block in reversed(list(enumerate(blocks))): snapshot is the list as
\* it was when the loop began, blocks the list as the deletions have left it
RECURSIVE remove_language_links_loop(_, _, _)
remove_language_links_loop(snapshot, blocks, idx) ==
    IF idx = 0 THEN blocks
    ELSE remove_language_links_loop(
             snapshot,
             IF languageLinkDeleted(snapshot[idx]) THEN delAt(blocks, idx) ELSE blocks,
             idx - 1)

\* the content of the caller's list when remove_language_links returns
remove_language_links(blocks) == remove_language_links_loop(blocks, blocks, Len(blocks))

\* the phrases of ignore_common_bs, as written
bs_listed ==
    << <<"p", "r", "i", "v", "a", "c", "y", " ", "p", "o", "l", "i", "c", "y">>,
       <<"t", "e", "r", "m", "s", " ", "o", "f", " ", "s", "e", "r", "v", "i", "c", "e">>,
       <<"t", "e", "r", "m", "s", " ", "a", "n", "d", " ", "c", "o", "n", "d", "i", "t", "i", "o", "n", "s">>,
       <<"c", "o", "n", "t", "a", "c", "t", " ", "u", "s">>,
       <<"a", "b", "o", "u", "t", " ", "u", "s">>,
       <<"h", "e", "l", "p">>,
       <<"f", "a", "q">>,
       <<"c", "o", "o", "k", "i", "e", " ", "p", "o", "l", "i", "c", "y">>,
       <<"s", "i", "t", "e", "m", "a", "p">>,
       <<"s", "i", "g", "n", " ", "i", "n">>,
       <<"g", "e", "t", " ", "s", "u", "p", "p", "o", "r", "t">>,
       <<"p", "r", "i", "c", "i", "n", "g">>,
       <<"h", "a", "v", "e", " ", "a", "n", "y", " ", "f", "e", "e", "d", "b", "a", "c", "k", " ", "o", "r", " ", "q", "u", "e", "s", "t", "i", "o", "n", "s", "?">>,
       <<"g", "u", "i", "d", "e", "s">>,
       <<"p", "r", "i", "v", "a", "c", "y", " ", "&", " ", "t", "e", "r", "m", "s">>,
       <<"l", "i", "c", "e", "n", "s", "e", "s">>,
       <<"y", "o", "u", "r", " ", "p", "r", "i", "v", "a", "c", "y", " ", "c", "h", "o", "i", "c", "e", "s">> >>

\* bs[i] = s.replace(" ", "").lower()
bs == [i \in DOMAIN bs_listed |-> lower(removeChar(bs_listed[i], " "))]

\* " ".join(span.text.strip().lower() for span in block.spans).replace(" ", "")
linkTextNoSpaces(block) ==
    removeChar(join(<<" ">>, [i \in DOMAIN block.spans |-> lower(strip(block.spans[i].text))]),
               " ")

\* the link text compared without being lower-cased
commonBsDeleted_caseSensitive(block) ==
    /\ block.type = "link"
    /\ \E i \in DOMAIN bs :
          bs[i] = removeChar(join(<<" ">>,
                                 [k \in DOMAIN block.spans |-> strip(block.spans[k].text)]),
                            " ")

\* the body of the loop of ignore_common_bs: whether blocks[idx] is deleted
commonBsDeleted(block) ==
    /\ block.type = "link"
    /\ \E i \in DOMAIN bs : bs[i] = linkTextNoSpaces(block)

RECURSIVE ignore_common_bs_loop(_, _, _)
ignore_common_bs_loop(snapshot, blocks, idx) ==
    IF idx = 0 THEN blocks
    ELSE ignore_common_bs_loop(
             snapshot,
             IF commonBsDeleted(snapshot[idx]) THEN delAt(blocks, idx) ELSE blocks,
             idx - 1)

\* the content of the caller's list when ignore_common_bs returns
ignore_common_bs(blocks) == ignore_common_bs_loop(blocks, blocks, Len(blocks))

\* the loop of duped_links with a seen_hrefs that is never added to
RECURSIVE duped_links_loop_noAdd(_, _)
duped_links_loop_noAdd(blocks, st) ==
    IF blocks = <<>> THEN st
    ELSE LET block == Head(blocks)
         IN IF block.type = "link" /\ block.href \in st.seen_hrefs
            THEN duped_links_loop_noAdd(Tail(blocks), st)
            ELSE duped_links_loop_noAdd(Tail(blocks),
                     [st EXCEPT !.new_blocks = Append(@, block)])

\* the loop of duped_links: st = [seen_hrefs, new_blocks]
RECURSIVE duped_links_loop(_, _)
duped_links_loop(blocks, st) ==
    IF blocks = <<>> THEN st
    ELSE LET block == Head(blocks)
         IN IF block.type = "link"
            THEN IF block.href \in st.seen_hrefs
                 THEN duped_links_loop(Tail(blocks), st)
                 ELSE duped_links_loop(Tail(blocks),
                          [seen_hrefs |-> st.seen_hrefs \cup {block.href},
                           new_blocks |-> Append(st.new_blocks, block)])
            ELSE duped_links_loop(Tail(blocks),
                     [st EXCEPT !.new_blocks = Append(@, block)])

\* duped_links with the append inside the isinstance branch: links only are kept
duped_links_linksOnly(blocks) ==
    SelectSeq(duped_links_loop(blocks, [seen_hrefs |-> {}, new_blocks |-> <<>>]).new_blocks,
              LAMBDA b : b.type = "link")

\* the content of the caller's list when duped_links returns (blocks[:] = new_blocks)
duped_links(blocks) ==
    duped_links_loop(blocks, [seen_hrefs |-> {}, new_blocks |-> <<>>]).new_blocks

\* the list with duped_links moved to the front
filters_dupedFirst == <<"duped_links", "remove_language_links", "ignore_common_bs">>

\* filters = [remove_language_links, ignore_common_bs, duped_links]
filters == <<"remove_language_links", "ignore_common_bs", "duped_links">>

applyFilter(ffilter, blocks) ==
    CASE ffilter = "remove_language_links" -> remove_language_links(blocks)
      [] ffilter = "ignore_common_bs" -> ignore_common_bs(blocks)
      [] ffilter = "duped_links" -> duped_links(blocks)

\* for ffilter in filters: ffilter(blocks)
RECURSIVE filter_blocks_loop(_, _)
filter_blocks_loop(fs, blocks) ==
    IF fs = <<>> THEN blocks
    ELSE filter_blocks_loop(Tail(fs), applyFilter(Head(fs), blocks))

filter_blocks(blocks) == filter_blocks_loop(filters, blocks)

(***************************************************************************)
(* The lists the filters are tried on.                                     *)
(***************************************************************************)
Span(text) == [text |-> text, formats |-> {"none"}]

LinkBlock(href, spans) ==
    [type |-> "link", href |-> href, spans |-> spans, bbox |-> <<0, 0, 60, 10>>]

FilterBlocks ==
    { \* a language code as first path segment
      LinkBlock(<<"h", ":", "/", "/", "x", "/", "e", "s", "/", "d">>, <<Span(<<"o", "k">>)>>),
      \* an upper-case code with a region suffix, in a relative href
      LinkBlock(<<"/", "E", "N", "-", "u", "s">>, <<Span(<<"o", "k">>)>>),
      \* neither a language path nor a language text
      LinkBlock(<<"h", ":", "/", "/", "x", "/", "b", "/", "p">>, <<Span(<<"o", "k">>)>>),
      \* the same href in another letter case
      LinkBlock(<<"h", ":", "/", "/", "x", "/", "B", "/", "p">>, <<Span(<<"o", "k">>)>>),
      \* a language name as text, on an href met above
      LinkBlock(<<"h", ":", "/", "/", "x", "/", "b", "/", "p">>, <<Span(<<"D", "e", "u", "t", "s", "c", "h">>)>>),
      \* a language name as text, on an href with an empty path
      LinkBlock(<<"h", ":", "/", "/", "x">>, <<Span(<<" ", "E", "n", "g", "l", "i", "s", "h", " ">>)>>),
      \* a non-ASCII language name
      LinkBlock(<<"h", ":", "/", "/", "x", "/", "q">>, <<Span(<<"U+65E5", "U+672C", "U+8A9E">>)>>),
      \* boilerplate texts: exact, in two spans, and with the space left out (the
      \* last two on an href whose second segment is a language code)
      LinkBlock(<<"h", ":", "/", "/", "x", "/", "b", "/", "p">>, <<Span(<<" ", "F", "A", "Q", "\n">>)>>),
      LinkBlock(<<"h", ":", "/", "/", "x", "/", "s", "/", "e", "s">>, <<Span(<<"S", "i", "g", "n">>), Span(<<"I", "n">>)>>),
      LinkBlock(<<"h", ":", "/", "/", "x", "/", "s", "/", "e", "s">>, <<Span(<<"S", "i", "g", "n", "I", "n">>)>>),
      \* a block that is no link, with a boilerplate text
      [type |-> "paragraph", text |-> <<"f", "a", "q">>, bold |-> FALSE, italic |-> FALSE,
       heading |-> 0, is_code |-> FALSE, bbox |-> <<0, 0, 60, 10>>] }

InitFilter ==
    /\ IdleLater
    /\ IdleExtract
    /\ IdleProc
    /\ IdleOrder
    /\ IdleText
    /\ config = DefaultConfig
    /\ fl_blocks \in SeqsUpTo(FilterBlocks, MaxFilterLen)
    /\ fl_before = fl_blocks
    /\ fl_last = "none"

\* one call of a filter, or of the chain, on the list
CallFilter(name, result) ==
    /\ fl_last = "none"
    /\ fl_before' = fl_blocks
    /\ fl_blocks' = result
    /\ fl_last' = name
    /\ UNCHANGED <<config, orderVars, textVars, procVars, extractVars, laterVars>>

RemoveLanguageLinks == CallFilter("remove_language_links", remove_language_links(fl_blocks))

IgnoreCommonBs == CallFilter("ignore_common_bs", ignore_common_bs(fl_blocks))

DupedLinks == CallFilter("duped_links", duped_links(fl_blocks))

FilterBlocksCall == CallFilter("filter_blocks", filter_blocks(fl_blocks))

NextFilter ==
    \/ RemoveLanguageLinks
    \/ IgnoreCommonBs
    \/ DupedLinks
    \/ FilterBlocksCall

SpecFilter == InitFilter /\ [][NextFilter]_vars

\* the elements of s at the positions in I, in order
RECURSIVE SubSeqAt(_, _, _)
SubSeqAt(s, I, i) ==
    IF i > Len(s) THEN <<>>
    ELSE (IF i \in I THEN <<s[i]>> ELSE <<>>) \o SubSeqAt(s, I, i + 1)

\* a can be had from b by removals alone
RECURSIVE IsSubseq(_, _)
IsSubseq(a, b) ==
    \/ a = <<>>
    \/ /\ b # <<>>
       /\ \/ Head(a) = Head(b) /\ IsSubseq(Tail(a), Tail(b))
          \/ IsSubseq(a, Tail(b))

IsLink(b) == b.type = "link"

NotLink(b) == b.type # "link"

\* the text of a link: its spans' texts, a space between two spans
linkText(block) == join(<<" ">>, [i \in DOMAIN block.spans |-> block.spans[i].text])

\* the first path segment of an href, case ignored
firstPathSegment(href) == splitOn(stripSlashes(urlparsePath(lower(href))), <<"/">>)[1]

\* a two-letter ISO code, with or without a region suffix
IsLanguageCodeSegment(seg) ==
    \E code \in ISO_LANG_CODES :
        \/ seg = code
        \/ Len(seg) > Len(code) + 1 /\ SubSeq(seg, 1, Len(code) + 1) = code \o <<"-">>

\* the text is a language display name, as written or ASCII-folded, case ignored
IsLanguageNameText(text) ==
    \E name \in LANG_NAMES :
        /\ name # <<>>
        /\ lower(name) \in {lower(strip(text)), lower(strip(asciiFold(text)))}

\* C6: remove_language_links removes a Link block if and only if the first path
\* segment of its href is a language code (with or without a region suffix) or
\* its text is a known language display name, either alone sufficing for any
\* href; every other block is retained.
C6_LanguageLinkIff ==
    fl_last = "remove_language_links" =>
        fl_blocks = SubSeqAt(fl_before,
                        {i \in DOMAIN fl_before :
                            ~(/\ IsLink(fl_before[i])
                              /\ \/ IsLanguageCodeSegment(firstPathSegment(fl_before[i].href))
                                 \/ IsLanguageNameText(linkText(fl_before[i])))},
                        1)

\* C7 as claimed: ignore_common_bs removes the Link blocks whose text, stripped
\* of surrounding whitespace and with case ignored, exactly equals a phrase of
\* the list, and retains every other Link block.
C7_ExactPhraseOnly ==
    fl_last = "ignore_common_bs" =>
        fl_blocks = SubSeqAt(fl_before,
                        {i \in DOMAIN fl_before :
                            ~(/\ IsLink(fl_before[i])
                              /\ \E k \in DOMAIN bs_listed :
                                    lower(strip(linkText(fl_before[i]))) = bs_listed[k])},
                        1)

\* the letters of a text: its characters other than the space, lower-cased
lettersOf(text) == lower(SelectSeq(text, LAMBDA c : c # " "))

\* the text ignore_common_bs reads off a link: each span's text without its
\* surrounding whitespace, a space between two spans
strippedLinkText(block) ==
    join(<<" ">>, [i \in DOMAIN block.spans |-> strip(block.spans[i].text)])

\* C7, amended: ignore_common_bs removes exactly the Link blocks whose text
\* (each span stripped of surrounding whitespace) equals a phrase of the list
\* once the space characters of both are left out and case is ignored,
\* whatever the href; every other block is retained.
C7_PhraseIgnoringSpaces ==
    fl_last = "ignore_common_bs" =>
        /\ \A i \in DOMAIN fl_blocks :
              IsLink(fl_blocks[i]) =>
                  \A k \in DOMAIN bs_listed :
                      lettersOf(strippedLinkText(fl_blocks[i])) # lettersOf(bs_listed[k])
        /\ fl_blocks = SubSeqAt(fl_before,
                          {i \in DOMAIN fl_before :
                              \/ NotLink(fl_before[i])
                              \/ \A k \in DOMAIN bs_listed :
                                    lettersOf(strippedLinkText(fl_before[i])) #
                                        lettersOf(bs_listed[k])},
                          1)

\* ignore_common_bs has removed a link with an exact phrase and one whose text
\* lacks the space of the phrase, and has kept another link
C7_Witness ==
    /\ fl_last = "ignore_common_bs"
    /\ Len(fl_before) = 3
    /\ Len(fl_blocks) = 1
    /\ IsLink(fl_blocks[1])
    /\ \E i \in DOMAIN fl_before :
          IsLink(fl_before[i]) /\ linkText(fl_before[i]) = <<" ", "F", "A", "Q", "\n">>
    /\ \E i \in DOMAIN fl_before :
          IsLink(fl_before[i]) /\ linkText(fl_before[i]) = <<"S", "i", "g", "n", "I", "n">>

\* C8: after duped_links the list holds, for each href, the first Link block
\* that had it and none of the later ones, whatever their text; no two Link
\* blocks of the result share an href.
C8_FirstLinkPerHref ==
    fl_last = "duped_links" =>
        /\ \A i, j \in DOMAIN fl_blocks :
              (i < j /\ IsLink(fl_blocks[i]) /\ IsLink(fl_blocks[j]))
                  => fl_blocks[i].href # fl_blocks[j].href
        /\ fl_blocks = SubSeqAt(fl_before,
                          {i \in DOMAIN fl_before :
                              IsLink(fl_before[i]) =>
                                  \A j \in 1..(i - 1) :
                                      ~(IsLink(fl_before[j]) /\
                                        fl_before[j].href = fl_before[i].href)},
                          1)

\* duped_links has dropped a later link of another text and kept the first,
\* and has kept a link whose href differs in letter case alone
C8_Witness ==
    /\ fl_last = "duped_links"
    /\ Len(fl_before) = 3
    /\ Len(fl_blocks) = 2
    /\ IsLink(fl_before[1]) /\ IsLink(fl_before[2]) /\ IsLink(fl_before[3])
    /\ \E i, j \in 1..3 :
          /\ i < j
          /\ fl_before[i].href = fl_before[j].href
          /\ fl_before[i].spans # fl_before[j].spans
          /\ fl_blocks[1] = fl_before[i]
    /\ \E i, j \in 1..2 :
          /\ fl_blocks[i].href # fl_blocks[j].href
          /\ lower(fl_blocks[i].href) = lower(fl_blocks[j].href)

\* C9: each post-filter, and the chain filter_blocks, changes the list it is
\* given by removal only: what is left is a subsequence of what was there, and
\* every block that is not a Link block is still there.
C9_RemovalOnly ==
    fl_last # "none" =>
        /\ IsSubseq(fl_blocks, fl_before)
        /\ SelectSeq(fl_blocks, NotLink) = SelectSeq(fl_before, NotLink)
        /\ \A i \in DOMAIN fl_blocks : \E j \in DOMAIN fl_before : fl_blocks[i] = fl_before[j]

\* the chain has removed a link from between a block that is no link and a
\* link that it kept
C9_Witness ==
    /\ fl_last = "filter_blocks"
    /\ Len(fl_before) = 3
    /\ NotLink(fl_before[1]) /\ IsLink(fl_before[2]) /\ IsLink(fl_before[3])
    /\ fl_blocks = <<fl_before[1], fl_before[3]>>

(***************************************************************************)
(* Paragraph classifier (src/processor/core.py)                            *)
(*                                                                         *)
(* A Statistics is kept as [total, count], its mean being total / count    *)
(* (0 for no samples); small_text_threshold, bold_threshold and the size   *)
(* multipliers of header_thresholds are in percent.                        *)
(***************************************************************************)
MaxTextLen == 4         \* characters in the text of a raw text block given to _handle_text_block

\* statistics(values)
statistics(values) ==
    LET RECURSIVE sum(_)
        sum(s) == IF s = <<>> THEN 0 ELSE Head(s) + sum(Tail(s))
    IN [total |-> sum(values), count |-> Len(values)]

\* x <= stat.mean * (pct / 100)
leMeanTimes(x, stat, pct) ==
    IF stat.count = 0 THEN x * 100 <= 0 ELSE x * stat.count * 100 <= stat.total * pct

geMeanTimes_below(x, stat, pct) ==
    IF stat.count = 0 THEN x * 100 <= 0 ELSE x * stat.count * 100 <= stat.total * pct

\* x >= stat.mean * (pct / 100)
geMeanTimes(x, stat, pct) ==
    IF stat.count = 0 THEN x * 100 >= 0 ELSE x * stat.count * 100 >= stat.total * pct

\* sorted(config.header_thresholds.items(), key=lambda x: x[1], reverse=True):
\* items are <<level, size_multiplier>>, in the order of the dict; entries of
\* equal multiplier keep that order
RECURSIVE insertByMultiplier(_, _)
insertByMultiplier(x, s) ==
    IF s = <<>> THEN <<x>>
    ELSE IF s[Len(s)][2] >= x[2] THEN Append(s, x)
    ELSE Append(insertByMultiplier(x, SubSeq(s, 1, Len(s) - 1)), s[Len(s)])

\* the items as they are stored, not sorted
sortedByMultiplier_asStored(items) == items

RECURSIVE sortedByMultiplier(_)
sortedByMultiplier(items) ==
    IF items = <<>> THEN <<>>
    ELSE insertByMultiplier(items[Len(items)],
                            sortedByMultiplier(SubSeq(items, 1, Len(items) - 1)))

\* the for loop of _determine_heading_level
RECURSIVE firstThresholdMet(_, _, _)
firstThresholdMet(items, block, metrics) ==
    IF items = <<>> THEN 0
    ELSE IF geMeanTimes(block.font_size, metrics.font_size, Head(items)[2])
         THEN Head(items)[1]
         ELSE firstThresholdMet(Tail(items), block, metrics)

_determine_heading_level(block, metrics, cfg) ==
    IF block.heading_level > 0 THEN block.heading_level
    ELSE firstThresholdMet(sortedByMultiplier(cfg.header_thresholds), block, metrics)

\* ParagraphBlock(text=..., bold=..., italic=..., heading=..., is_code=..., bbox=...)
\* as core.py passes them; the class of processor/models.py declares spans in
\* the place of text, bold and italic
ParagraphBlock(text, bold, italic, heading, is_code, bbox) ==
    [type |-> "paragraph", text |-> text, bold |-> bold, italic |-> italic,
     heading |-> heading, is_code |-> is_code, bbox |-> bbox]

\* [p.strip() for p in text.split("\n\n") if p.strip()]
RECURSIVE strippedNonEmpty(_)
strippedNonEmpty(parts) ==
    IF parts = <<>> THEN <<>>
    ELSE (IF strip(Head(parts)) # <<>> THEN <<strip(Head(parts))>> ELSE <<>>)
             \o strippedNonEmpty(Tail(parts))

\* the loop over the paragraphs of a block that is no code
RECURSIVE paragraphLoop(_, _, _, _)
paragraphLoop(paragraphs, block, metrics, cfg) ==
    IF paragraphs = <<>> THEN <<>>
    ELSE LET cleaned_text == collapse(Head(paragraphs))
             rest == paragraphLoop(Tail(paragraphs), block, metrics, cfg)
         IN IF cleaned_text = <<>> THEN rest
            ELSE IF leMeanTimes(block.font_size, metrics.font_size, cfg.small_text_threshold)
            THEN rest
            ELSE <<ParagraphBlock(
                       IF block.is_blockquote THEN <<">", " ">> \o cleaned_text
                       ELSE cleaned_text,
                       geMeanTimes(block.font_weight, metrics.font_weight,
                                   100 + cfg.bold_threshold),
                       FALSE,
                       _determine_heading_level(block, metrics, cfg),
                       FALSE,
                       block.bbox)>> \o rest

\* _handle_text_block with the is_code test left out: a code block is split and
\* cleaned like any text, and then marked as code
_handle_text_block_codeLate(block, metrics, cfg) ==
    LET ps == paragraphLoop(strippedNonEmpty(splitOn(strip(block.text), <<"\n", "\n">>)),
                            block, metrics, cfg)
    IN [i \in DOMAIN ps |->
           IF block.is_code THEN [ps[i] EXCEPT !.is_code = TRUE, !.heading = 0, !.bold = FALSE]
           ELSE ps[i]]

_handle_text_block(block, metrics, cfg) ==
    LET text == strip(block.text)
    IN IF text = <<>> THEN <<>>
       ELSE IF block.is_code
       THEN <<ParagraphBlock(text, FALSE, FALSE, 0, TRUE, block.bbox)>>
       ELSE paragraphLoop(strippedNonEmpty(splitOn(text, <<"\n", "\n">>)),
                          block, metrics, cfg)

(***************************************************************************)
(* The raw text blocks _handle_text_block is tried on.                     *)
(***************************************************************************)
RawTextBlock(text, bbox, font_size, font_weight, heading_level, is_code, is_blockquote) ==
    [type |-> "text", bbox |-> bbox, text |-> text, font_size |-> font_size,
     font_weight |-> font_weight, heading_level |-> heading_level,
     is_code |-> is_code, is_blockquote |-> is_blockquote]

TextChars == {"a", " ", "\n"}

ClassifierBlocks ==
    {RawTextBlock(t, <<0, 0, 60, 10>>, fs, fw, h, c, q) :
        t \in SeqsUpTo(TextChars, MaxTextLen),
        fs \in {6, 10, 20}, fw \in {400, 700}, h \in {0, 3},
        c \in BOOLEAN, q \in BOOLEAN}

\* a page whose text blocks have a mean font size of 10 and a mean weight of 500
ClassifierMetrics ==
    [font_size |-> [total |-> 30, count |-> 3],
     font_weight |-> [total |-> 1500, count |-> 3]]

InitText ==
    /\ IdleLater
    /\ IdleExtract
    /\ IdleProc
    /\ IdleOrder
    /\ IdleFilter
    /\ config = DefaultConfig
    /\ tx_block \in ClassifierBlocks
    /\ tx_metrics = ClassifierMetrics
    /\ tx_result = <<>>
    /\ tx_done = FALSE

HandleTextBlock ==
    /\ ~tx_done
    /\ tx_result' = _handle_text_block(tx_block, tx_metrics, config)
    /\ tx_done' = TRUE
    /\ UNCHANGED <<config, orderVars, filterVars, procVars, extractVars, tx_block, tx_metrics, laterVars>>

NextText == HandleTextBlock

SpecText == InitText /\ [][NextText]_vars

MaxRaw == 4             \* raw blocks given to _process_blocks in one run
MinTextWidth == 50      \* a text block narrower than this is skipped

\* _is_text_duplicate without the test of containment
_is_text_duplicate_exact(normalized, seen_texts) == normalized \in seen_texts

_is_text_duplicate(normalized, seen_texts) ==
    \/ normalized \in seen_texts
    \/ \E seen \in seen_texts : contains(normalized, seen) \/ contains(seen, normalized)

\* [" ".join(cell.lower().split()) for cell in row]
normalizedRow(row) == [i \in DOMAIN row |-> collapse(lower(row[i]))]

_hash_table(rows) ==
    join(<<"\n">>, [i \in DOMAIN rows |-> join(<<"|">>, normalizedRow(rows[i]))])

is_duplicate(tr, normalized) == normalized \in tr.seen_texts

\* the test of one direction alone: the text is a part of a text seen
is_substring_duplicate_oneWay(tr, normalized) ==
    \E seen \in tr.seen_texts : contains(normalized, seen)

is_substring_duplicate(tr, normalized) == _is_text_duplicate(normalized, tr.seen_texts)

\* add, the index of a text already recorded left as it is
add_keepIndex(tr, normalized, index) ==
    [tr EXCEPT !.seen_texts = @ \cup {normalized},
               !.text_to_index = [key \in DOMAIN @ \cup {normalized} |->
                                     IF key \in DOMAIN @ THEN @[key] ELSE index]]

add(tr, normalized, index) ==
    [tr EXCEPT !.seen_texts = @ \cup {normalized},
               !.text_to_index = [key \in DOMAIN @ \cup {normalized} |->
                                     IF key = normalized THEN index ELSE @[key]]]

remove_at_index_noShift(tr, idx) == tr

remove_at_index(tr, idx) ==
    [tr EXCEPT !.text_to_index = [key \in DOMAIN @ |->
                                     IF @[key] > idx THEN @[key] - 1 ELSE @[key]]]

is_image_duplicate(tr, src) == src \in tr.seen_images

add_image(tr, src) == [tr EXCEPT !.seen_images = @ \cup {src}]

is_table_duplicate(tr, rows) == _hash_table(rows) \in tr.seen_tables

add_table(tr, rows) == [tr EXCEPT !.seen_tables = @ \cup {_hash_table(rows)}]

_should_skip_paragraph_anyDuplicate(pb, tr, cfg) ==
    IF strip(pb.text) = <<>> THEN TRUE
    ELSE IF \E i \in DOMAIN cfg.skip_patterns : contains(cfg.skip_patterns[i], lower(pb.text))
    THEN TRUE
    ELSE is_substring_duplicate(tr, normalize(pb.text))

_should_skip_paragraph(pb, tr, cfg) ==
    IF strip(pb.text) = <<>> THEN TRUE
    ELSE IF \E i \in DOMAIN cfg.skip_patterns : contains(cfg.skip_patterns[i], lower(pb.text))
    THEN TRUE
    ELSE LET normalized == normalize(pb.text)
         IN IF is_duplicate(tr, normalized) /\ pb.heading = 0 THEN TRUE
            ELSE IF is_substring_duplicate(tr, normalized) /\ pb.heading = 0 THEN TRUE
            ELSE FALSE

\* the default alone: the heading of the block is not looked at
headingOf_default(block) == 0

\* getattr(block, "heading", 0)
headingOf(block) == IF "heading" \in DOMAIN block THEN block.heading ELSE 0

\* whether the paragraph pb, not skipped, deletes blocks[idx] before it is appended
replacesEarlier(pb, bl, tr) ==
    /\ pb.heading > 0
    /\ normalize(pb.text) \in DOMAIN tr.text_to_index
    /\ LET idx == tr.text_to_index[normalize(pb.text)]
       IN idx < Len(bl) /\ headingOf(bl[idx + 1]) = 0

\* the body of the loop over the paragraphs of a text block, for a paragraph
\* that is not skipped: [blocks, tracker] after it
appendParagraph(pb, bl, tr) ==
    LET normalized == normalize(pb.text)
        idx == tr.text_to_index[normalized]
        bl1 == IF replacesEarlier(pb, bl, tr) THEN delAt(bl, idx + 1) ELSE bl
        tr1 == IF replacesEarlier(pb, bl, tr) THEN remove_at_index(tr, idx) ELSE tr
    IN [blocks |-> Append(bl1, pb), tracker |-> add(tr1, normalized, Len(bl1))]

\* ImageBlock(src=rb.src, alt="", dimensions=(round(w), round(h)), bbox=rb.bbox);
\* the coordinates of the model are whole numbers, which round() leaves as they are
ImageBlock(rb) ==
    [type |-> "image", src |-> rb.src, alt |-> <<>>,
     dimensions |-> <<rb.bbox[3] - rb.bbox[1], rb.bbox[4] - rb.bbox[2]>>,
     bbox |-> rb.bbox]

\* TableBlock(rows=rb.rows, bbox=rb.bbox)
TableBlock(rb) == [type |-> "table", rows |-> rb.rows, bbox |-> rb.bbox]

inHeaderOrFooter_inclusive(rb) ==
    \/ rb.bbox[2] * 100 <= header_threshold
    \/ rb.bbox[2] * 100 >= footer_threshold

\* rb.bbox[1] < header_threshold or rb.bbox[1] > footer_threshold
inHeaderOrFooter(rb) ==
    \/ rb.bbox[2] * 100 < header_threshold
    \/ rb.bbox[2] * 100 > footer_threshold

procInputs == <<pb_metrics, header_threshold, footer_threshold>>
procGhosts == <<gh_headings, gh_deleted, gh_skipped, gh_dropped, gh_tables>>

\* for rb in raw_blocks.blocks: a block in the header or footer region
SkipHeaderFooter(rb) ==
    /\ pending = <<>>
    /\ inHeaderOrFooter(rb)
    /\ gh_skipped' = gh_skipped \cup {n_raw + 1}
    /\ UNCHANGED <<pb_blocks, tracker, pending, gh_headings, gh_deleted, gh_dropped, gh_tables>>

\* case RawTextBlock(): the paragraphs of the block are about to be looped over
ProcessTextBlock(rb) ==
    /\ pending = <<>>
    /\ ~inHeaderOrFooter(rb)
    /\ rb.type = "text"
    /\ pending' = IF rb.bbox[3] - rb.bbox[1] < MinTextWidth THEN <<>>
                  ELSE _handle_text_block(rb, pb_metrics, config)
    /\ UNCHANGED <<pb_blocks, tracker, procGhosts>>

\* a candidate paragraph that is a heading, is not blank and holds no skip pattern
headingCandidate(pb, cfg) ==
    /\ pb.heading > 0
    /\ strip(pb.text) # <<>>
    /\ ~\E i \in DOMAIN cfg.skip_patterns : contains(cfg.skip_patterns[i], lower(pb.text))

\* for pb in _handle_text_block(rb, metrics): one turn of the loop
ProcessParagraph ==
    /\ pending # <<>>
    /\ LET pb == Head(pending)
           skip == _should_skip_paragraph(pb, tracker, config)
           after == appendParagraph(pb, pb_blocks, tracker)
       IN /\ pb_blocks' = IF skip THEN pb_blocks ELSE after.blocks
          /\ tracker' = IF skip THEN tracker ELSE after.tracker
          /\ gh_headings' = IF headingCandidate(pb, config) THEN Append(gh_headings, pb)
                            ELSE gh_headings
          /\ gh_deleted' = IF ~skip /\ replacesEarlier(pb, pb_blocks, tracker)
                           THEN Append(gh_deleted,
                                       pb_blocks[tracker.text_to_index[normalize(pb.text)] + 1])
                           ELSE gh_deleted
          /\ gh_dropped' = IF skip
                           THEN Append(gh_dropped, [pb |-> pb, deleted |-> Len(gh_deleted)])
                           ELSE gh_dropped
    /\ pending' = Tail(pending)
    /\ UNCHANGED <<config, procInputs, n_raw, gh_skipped, gh_tables>>

\* case RawImageBlock()
ProcessImageBlock(rb) ==
    /\ pending = <<>>
    /\ ~inHeaderOrFooter(rb)
    /\ rb.type = "image"
    /\ IF is_image_duplicate(tracker, rb.src)
       THEN UNCHANGED <<pb_blocks, tracker>>
       ELSE /\ tracker' = add_image(tracker, rb.src)
            /\ pb_blocks' = Append(pb_blocks, ImageBlock(rb))
    /\ UNCHANGED <<pending, procGhosts>>

\* case RawTableBlock()
ProcessTableBlock(rb) ==
    /\ pending = <<>>
    /\ ~inHeaderOrFooter(rb)
    /\ rb.type = "table"
    /\ IF is_table_duplicate(tracker, rb.rows)
       THEN UNCHANGED <<pb_blocks, tracker>>
       ELSE /\ tracker' = add_table(tracker, rb.rows)
            /\ pb_blocks' = Append(pb_blocks, TableBlock(rb))
    /\ gh_tables' = Append(gh_tables, rb.rows)
    /\ UNCHANGED <<pending, gh_headings, gh_deleted, gh_skipped, gh_dropped>>

\* case RawBlock(): pass
ProcessOtherBlock(rb) ==
    /\ pending = <<>>
    /\ ~inHeaderOrFooter(rb)
    /\ rb.type \notin {"text", "image", "table"}
    /\ UNCHANGED <<pb_blocks, tracker, pending, procGhosts>>

(***************************************************************************)
(* _process_blocks on every sequence of up to MaxRaw raw blocks.              *)
(***************************************************************************)
RawImageBlock(src, bbox) == [type |-> "image", bbox |-> bbox, src |-> src, alt |-> <<>>]

RawTableBlock(rows, bbox) == [type |-> "table", bbox |-> bbox, rows |-> rows]

RawLinkBlock(href, spans, bbox) ==
    [type |-> "link", bbox |-> bbox, href |-> href, spans |-> spans]

RawListBlock(items, ordered, level, bbox) ==
    [type |-> "list", bbox |-> bbox, items |-> items, ordered |-> ordered, level |-> level]

\* a box of width 60 in the body of the page
BodyBox == <<0, 50, 60, 60>>

PlainText(text, heading_level) ==
    RawTextBlock(text, BodyBox, 10, 400, heading_level, FALSE, FALSE)

ProcBlocks ==
    { \* texts of equal normalized text, plain and as a heading
      PlainText(<<"a", " ", "b">>, 0),
      PlainText(<<"A", " ", " ", "b">>, 0),
      PlainText(<<"A", " ", " ", "b">>, 2),
      \* a text contained in the one above, plain and as a heading
      PlainText(<<"a">>, 0),
      PlainText(<<"a">>, 1),
      \* a heading by its font size
      RawTextBlock(<<"c">>, BodyBox, 20, 400, 0, FALSE, FALSE),
      \* blocks of two paragraphs, plain and as headings
      PlainText(<<"c", "\n", "\n", "a", " ", "b">>, 0),
      PlainText(<<"c", "\n", "\n", "a">>, 2),
      \* a code block
      RawTextBlock(<<"a", " ", "b">>, BodyBox, 10, 400, 0, TRUE, FALSE),
      \* a heading that holds a skip pattern
      PlainText(<<"X">>, 2),
      \* a narrow text block, and blocks in the header and in the footer region
      RawTextBlock(<<"d">>, <<0, 50, 40, 60>>, 10, 400, 0, FALSE, FALSE),
      RawTextBlock(<<"d">>, <<0, 1, 60, 11>>, 10, 400, 0, FALSE, FALSE),
      RawImageBlock(<<"k">>, <<0, 99, 60, 100>>),
      \* images
      RawImageBlock(<<"i">>, BodyBox),
      RawImageBlock(<<"j">>, <<0, 50, 61, 62>>),
      \* tables
      RawTableBlock(<< <<<<"a">>, <<"b">>>> >>, BodyBox),
      RawTableBlock(<< <<<<"A", " ">>, <<"b">>>> >>, BodyBox),
      RawTableBlock(<< <<<<"a", "|", "b">>>> >>, BodyBox),
      \* a link and a list
      RawLinkBlock(<<"h", ":", "/", "/", "x", "/", "b", "/", "p">>, <<Span(<<"o", "k">>)>>, BodyBox),
      RawListBlock(<< <<Span(<<"o", "k">>)>> >>, FALSE, 0, BodyBox) }

ProcConfig == [DefaultConfig EXCEPT !.skip_patterns = <<<<"x">>>>]

InitProc ==
    /\ IdleLater
    /\ IdleExtract
    /\ IdleOrder
    /\ IdleFilter
    /\ IdleText
    /\ config = ProcConfig
    /\ pb_metrics = ClassifierMetrics
    /\ header_threshold = 200
    /\ footer_threshold = 9800
    /\ pb_blocks = <<>>
    /\ tracker = NewTracker
    /\ pending = <<>>
    /\ n_raw = 0
    /\ gh_headings = <<>>
    /\ gh_deleted = <<>>
    /\ gh_skipped = {}
    /\ gh_dropped = <<>>
    /\ gh_tables = <<>>

\* the next raw block of the array is taken
TakeRaw ==
    /\ n_raw < MaxRaw
    /\ n_raw' = n_raw + 1
    /\ UNCHANGED <<config, procInputs, extractVars, orderVars, filterVars, textVars, laterVars>>

NextProc ==
    \/ \E rb \in ProcBlocks : TakeRaw /\ SkipHeaderFooter(rb)
    \/ \E rb \in ProcBlocks : TakeRaw /\ ProcessTextBlock(rb)
    \/ \E rb \in ProcBlocks : TakeRaw /\ ProcessImageBlock(rb)
    \/ \E rb \in ProcBlocks : TakeRaw /\ ProcessTableBlock(rb)
    \/ \E rb \in ProcBlocks : TakeRaw /\ ProcessOtherBlock(rb)
    \/ ProcessParagraph /\ UNCHANGED <<extractVars, orderVars, filterVars, textVars, laterVars>>

SpecProc == InitProc /\ [][NextProc]_vars

IsNonHeadingParagraph(b) == b.type = "paragraph" /\ b.heading = 0

IsHeading(b) == b.type = "paragraph" /\ b.heading > 0

\* the number of places of the sequence s that hold x
countOf(s, x) == Cardinality({i \in DOMAIN s : s[i] = x})

promoted(bl, pb) ==
    Append(SelectSeq(bl, LAMBDA b : ~(IsNonHeadingParagraph(b)
                                        /\ normalize(b.text) = normalize(pb.text))),
           pb)

MaxExtractLen == 3      \* raw blocks in the array given to extract_blocks

RECURSIVE fontsOf(_, _)
fontsOf(raw, field) ==
    IF raw = <<>> THEN <<>>
    ELSE (IF Head(raw).type = "text" THEN <<Head(raw)[field]>> ELSE <<>>)
             \o fontsOf(Tail(raw), field)

compute_page_metrics(raw_blocks) ==
    [font_size |-> statistics(fontsOf(raw_blocks.blocks, "font_size")),
     font_weight |-> statistics(fontsOf(raw_blocks.blocks, "font_weight"))]

\* max((b.bbox[3] for b in raw_blocks.blocks), default=0)
max_y(raw_blocks) ==
    LET ys == {raw_blocks.blocks[i].bbox[4] : i \in DOMAIN raw_blocks.blocks}
    IN IF ys = {} THEN 0 ELSE CHOOSE y \in ys : \A z \in ys : z <= y

ExtractBlocks ==
    { RawTextBlock(<<"a", " ", "b">>, BodyBox, 10, 400, 0, FALSE, FALSE),
      RawTextBlock(<<"a">>, <<0, 10, 60, 20>>, 20, 400, 0, FALSE, FALSE),
      RawTextBlock(<<"d">>, <<0, 99, 60, 109>>, 10, 400, 0, FALSE, FALSE),
      RawImageBlock(<<"i">>, <<0, 90, 60, 100>>),
      RawTableBlock(<< <<<<"a">>, <<"b">>>> >>, <<0, 40, 60, 50>>),
      \* two links of one href on one line, and a link at the top of the page
      RawLinkBlock(<<"h", ":", "/", "/", "x", "/", "b", "/", "p">>, <<Span(<<"o", "k">>)>>, <<0, 30, 60, 40>>),
      RawLinkBlock(<<"h", ":", "/", "/", "x", "/", "b", "/", "p">>, <<Span(<<"o", "k">>)>>, <<70, 31, 130, 41>>),
      RawLinkBlock(<<"h", ":", "/", "/", "x", "/", "b", "/", "p">>, <<Span(<<"o", "k">>)>>, <<0, 0, 60, 10>>),
      RawListBlock(<< <<Span(<<"o", "k">>)>> >>, FALSE, 0, <<0, 70, 60, 80>>) }

ExtractConfigs ==
    {DefaultConfig, [DefaultConfig EXCEPT !.header_threshold = 10, !.footer_threshold = 90]}

InitExtract ==
    /\ IdleLater
    /\ IdleOrder
    /\ IdleFilter
    /\ IdleText
    /\ IdleProc
    /\ config \in ExtractConfigs
    /\ ex_raw \in {[url |-> <<"u", "1">>, blocks |-> b] : b \in SeqsUpTo(ExtractBlocks, MaxExtractLen)}
    /\ ex_ordered = <<>>
    /\ ex_pc = "start"
    /\ ex_result = <<>>

\* raw_blocks = reading_order(raw_blocks) ... up to the call of _process_blocks
EnterExtract ==
    /\ ex_pc = "start"
    /\ ex_ordered' = reading_order(ex_raw, config)
    /\ pb_metrics' = compute_page_metrics(ex_ordered')
    /\ header_threshold' = IF ex_ordered'.blocks # <<>>
                           THEN max_y(ex_ordered') * config.header_threshold ELSE 0
    /\ footer_threshold' = IF ex_ordered'.blocks # <<>>
                           THEN max_y(ex_ordered') * config.footer_threshold ELSE 0
    /\ pb_blocks' = <<>>
    /\ tracker' = NewTracker
    /\ pending' = <<>>
    /\ n_raw' = 0
    /\ ex_pc' = "process"
    /\ UNCHANGED <<config, ex_raw, ex_result, procGhosts, orderVars, filterVars, textVars, laterVars>>

\* for rb in raw_blocks.blocks
TakeNext ==
    /\ ex_pc = "process"
    /\ n_raw < Len(ex_ordered.blocks)
    /\ n_raw' = n_raw + 1
    /\ UNCHANGED <<config, procInputs, extractVars, orderVars, filterVars, textVars, laterVars>>

\* return ParsedBlocks(url=raw_blocks.url, blocks=blocks)
ReturnExtract ==
    /\ ex_pc = "process"
    /\ n_raw = Len(ex_ordered.blocks)
    /\ pending = <<>>
    /\ ex_result' = [url |-> ex_ordered.url, blocks |-> pb_blocks]
    /\ ex_pc' = "done"
    /\ UNCHANGED <<config, ex_raw, ex_ordered, procVars, orderVars, filterVars, textVars, laterVars>>

NextExtract ==
    \/ EnterExtract
    \/ TakeNext /\ SkipHeaderFooter(ex_ordered.blocks[n_raw + 1])
    \/ TakeNext /\ ProcessTextBlock(ex_ordered.blocks[n_raw + 1])
    \/ TakeNext /\ ProcessImageBlock(ex_ordered.blocks[n_raw + 1])
    \/ TakeNext /\ ProcessTableBlock(ex_ordered.blocks[n_raw + 1])
    \/ TakeNext /\ ProcessOtherBlock(ex_ordered.blocks[n_raw + 1])
    \/ ProcessParagraph /\ UNCHANGED <<extractVars, orderVars, filterVars, textVars, laterVars>>
    \/ ReturnExtract

SpecExtract == InitExtract /\ [][NextExtract]_vars

IsLinkOrList(b) == b.type \in {"link", "list"}

\* C3: the Link and List blocks of the list extract_blocks returns are the raw
\* Link and List blocks outside the header and footer regions, with their
\* fields as they were, in reading order, none left out.
C3_LinksAndListsPassThrough ==
    ex_pc = "done" =>
        SelectSeq(ex_result.blocks, IsLinkOrList)
            = SelectSeq(ex_ordered.blocks, LAMBDA rb : IsLinkOrList(rb) /\ ~inHeaderOrFooter(rb))

(***************************************************************************)
(* The paragraphs of one raw block collection classified under two values  *)
(* of bold_threshold, every other setting the same.                        *)
(***************************************************************************)
MaxBoldLen == 3         \* raw blocks in the collection classified twice

\* the number of bold paragraphs _handle_text_block returns for the text blocks
RECURSIVE boldCount(_, _, _)
boldCount(raw, metrics, cfg) ==
    IF raw = <<>> THEN 0
    ELSE (IF Head(raw).type = "text"
          THEN LET ps == _handle_text_block(Head(raw), metrics, cfg)
               IN Cardinality({i \in DOMAIN ps : ps[i].bold})
          ELSE 0)
         + boldCount(Tail(raw), metrics, cfg)

\* font weights as the browser computes them (1 to 1000)
BoldBlocks ==
    {RawTextBlock(t, BodyBox, 10, fw, 0, FALSE, FALSE) :
        t \in {<<"a">>, <<"a", "\n", "\n", "a">>}, fw \in {400, 700, 900}}
    \cup {RawTextBlock(<<"a">>, BodyBox, 10, 900, 0, TRUE, FALSE),
          RawImageBlock(<<"i">>, BodyBox)}

\* values of bold_threshold, in percent; the Config validator admits 0 to 100
BoldThresholds == {0, 10, 35, 100}

InitBold ==
    /\ IdleEarlier
    /\ IdleCache
    /\ IdleHeading
    /\ IdleRuns
    /\ IdleSkip
    /\ IdleRender
    /\ IdleConfig
    /\ IdleTable
    /\ config = DefaultConfig
    /\ bd_raw \in {[url |-> <<"u", "1">>, blocks |-> b] : b \in SeqsUpTo(BoldBlocks, MaxBoldLen)}
    /\ bd_lo \in BoldThresholds
    /\ bd_hi \in {b \in BoldThresholds : bd_lo <= b}
    /\ bd_bold_lo = 0
    /\ bd_bold_hi = 0
    /\ bd_done = FALSE

ClassifyBold ==
    /\ ~bd_done
    /\ LET metrics == compute_page_metrics(bd_raw)
       IN /\ bd_bold_lo' = boldCount(bd_raw.blocks, metrics,
                                     [config EXCEPT !.bold_threshold = bd_lo])
          /\ bd_bold_hi' = boldCount(bd_raw.blocks, metrics,
                                     [config EXCEPT !.bold_threshold = bd_hi])
    /\ bd_done' = TRUE
    /\ UNCHANGED <<config, earlierVars, bd_raw, bd_lo, bd_hi, tableVars, configVars, renderVars, skipVars, runsVars, headingVars, cacheVars>>

NextBold == ClassifyBold

SpecBold == InitBold /\ [][NextBold]_vars

Backtick == "U+0060"

Digits == <<"0", "1", "2", "3", "4", "5", "6", "7", "8", "9">>

\* str(n) for a natural number
RECURSIVE strNat(_)
strNat(n) == IF n < 10 THEN <<Digits[n + 1]>> ELSE Append(strNat(n \div 10), Digits[(n % 10) + 1])

\* the match statement of _format_spans for one format
applyFormat(text, fmt) ==
    CASE fmt = "bold" -> <<"*", "*">> \o text \o <<"*", "*">>
      [] fmt = "italic" -> <<"*">> \o text \o <<"*">>
      [] fmt = "code" -> <<Backtick>> \o text \o <<Backtick>>
      [] OTHER -> text

\* for fmt in span.formats, met in the order fmts
RECURSIVE applyFormats(_, _)
applyFormats(text, fmts) ==
    IF fmts = <<>> THEN text ELSE applyFormats(applyFormat(text, Head(fmts)), Tail(fmts))

\* the members of the set formats in the order the interpreter meets them
iteration(formats, order) == SelectSeq(order, LAMBDA f : f \in formats)

ClosingPunctuation == {".", ",", "!", "?", ";", ":", ")", "]", "}"}

\* the loop of _format_spans: result is the string built so far, i the index
\* (from 0) of the span at the head of spans
RECURSIVE formatSpansLoop(_, _, _, _)
formatSpansLoop(spans, i, result, order) ==
    IF spans = <<>> THEN result
    ELSE LET text == applyFormats(Head(spans).text, iteration(Head(spans).formats, order))
             space == IF /\ i > 0
                         /\ result # <<>>
                         /\ ~IsSpace(result[Len(result)])
                         /\ text # <<>>
                         /\ text[1] \notin ClosingPunctuation
                      THEN <<" ">> ELSE <<>>
         IN formatSpansLoop(Tail(spans), i + 1, result \o space \o text, order)

_format_spans(spans, order) == formatSpansLoop(spans, 0, <<>>, order)

\* "".join of a sequence of strings
RECURSIVE concat(_)
concat(parts) == IF parts = <<>> THEN <<>> ELSE Head(parts) \o concat(Tail(parts))

\* ParagraphBlock.text: "".join(span.text for span in self.spans)
paragraphText(block) == concat([i \in DOMAIN block.spans |-> block.spans[i].text])

\* max(len(row) for row in block.rows)
max_cols(rows) ==
    LET lens == {Len(rows[i]) : i \in DOMAIN rows}
    IN CHOOSE n \in lens : \A m \in lens : m <= n

padRow_unpadded(row, n) == row

\* row + [""] * (max_cols - len(row))
padRow(row, n) == row \o [i \in 1..(n - Len(row)) |-> <<>>]

\* "| " + " | ".join(row) + " |\n"
tableLine(row) == <<"|", " ">> \o join(<<" ", "|", " ">>, row) \o <<" ", "|", "\n">>

\* the lines.append calls of the TableBlock branch
tableMarkdown(rows) ==
    IF rows = <<>> THEN <<>>
    ELSE IF max_cols(rows) = 0 THEN <<>>
    ELSE LET normalized_rows == [i \in DOMAIN rows |-> padRow(rows[i], max_cols(rows))]
             header == normalized_rows[1]
         IN tableLine(header)
            \o tableLine([i \in DOMAIN header |-> <<"-", "-", "-">>])
            \o concat([i \in 1..(Len(rows) - 1) |-> tableLine(normalized_rows[i + 1])])
            \o <<"\n">>

\* the items of a ListBlock
listMarkdown(block, order) ==
    concat([i \in DOMAIN block.items |->
               concat([k \in 1..block.level |-> <<" ", " ">>])
               \o (IF block.ordered THEN strNat(i) \o <<".", " ">> ELSE <<"-", " ">>)
               \o _format_spans(block.items[i], order)
               \o <<"\n">>])
    \o <<"\n">>

\* what markdown appends to lines for one block
blockMarkdown(block, order) ==
    CASE block.type = "paragraph" ->
             IF block.is_code
             THEN <<Backtick, Backtick, Backtick, "\n">> \o paragraphText(block) \o <<"\n", Backtick, Backtick, Backtick, "\n", "\n">>
             ELSE IF block.heading > 0
             THEN [i \in 1..block.heading |-> "#"] \o <<" ">> \o paragraphText(block) \o <<"\n", "\n">>
             ELSE _format_spans(block.spans, order) \o <<"\n", "\n">>
      [] block.type = "image" ->
             <<"!", "[">> \o (IF block.alt # <<>> THEN block.alt ELSE <<"I", "m", "a", "g", "e">>)
             \o <<"]", "(">> \o block.src \o <<")", " ">>
             \o strNat(block.dimensions[1]) \o <<"x">> \o strNat(block.dimensions[2])
             \o <<"\n", "\n">>
      [] block.type = "table" -> tableMarkdown(block.rows)
      [] block.type = "link" ->
             <<"[">> \o _format_spans(block.spans, order) \o <<"]", "(">> \o block.href
             \o <<")", "\n", "\n">>
      [] block.type = "list" -> listMarkdown(block, order)

markdown(blocks, order) == concat([i \in DOMAIN blocks |-> blockMarkdown(blocks[i], order)])

(***************************************************************************)
(* The markdown of a list that holds one table.                            *)
(***************************************************************************)
MaxRows == 3            \* rows of the table rendered

TableRows ==
    {<<>>, <<<<"A">>>>, <<<<>>>>, <<<<"A">>, <<"B">>>>, <<<<"1">>, <<"2">>>>, <<<<"3">>>>, <<<<"A", "|", "B">>, <<>>>>}

InitTable ==
    /\ IdleEarlier
    /\ IdleCache
    /\ IdleHeading
    /\ IdleRuns
    /\ IdleSkip
    /\ IdleRender
    /\ IdleConfig
    /\ IdleBold
    /\ config = DefaultConfig
    /\ tb_rows \in SeqsUpTo(TableRows, MaxRows)
    /\ tb_md = <<>>
    /\ tb_done = FALSE

\* ParsedBlocks(url=..., blocks=[TableBlock(rows=tb_rows, ...)]).markdown
TableMarkdown ==
    /\ ~tb_done
    /\ tb_md' = markdown(<<TableBlock([rows |-> tb_rows, bbox |-> BodyBox])>>, <<"none">>)
    /\ tb_done' = TRUE
    /\ UNCHANGED <<config, earlierVars, boldVars, tb_rows, configVars, renderVars, skipVars, runsVars, headingVars, cacheVars>>

NextTable == TableMarkdown

SpecTable == InitTable /\ [][NextTable]_vars

\* the cells of a line "| c1 | c2 |" of a markdown table
cellsOfLine(line) == splitOn(SubSeq(line, 3, Len(line) - 2), <<" ", "|", " ">>)

IsTableLine(line) ==
    /\ Len(line) >= 4
    /\ SubSeq(line, 1, 2) = <<"|", " ">>
    /\ SubSeq(line, Len(line) - 1, Len(line)) = <<" ", "|">>

\* row, with empty cells on its right up to n cells
paddedRight(row, n) == [i \in 1..n |-> IF i <= Len(row) THEN row[i] ELSE <<>>]

\* C12: the markdown of a table with a non-empty row is, line by line: the
\* first row, a separator row of "---", the other rows in their order, each
\* line holding exactly as many cells as the longest row has, a shorter row
\* filled on the right with empty cells; then a blank line.
C12_TableRendering ==
    (tb_done /\ \E i \in DOMAIN tb_rows : tb_rows[i] # <<>>) =>
        LET n == max_cols(tb_rows)
            lines == splitOn(tb_md, <<"\n">>)
        IN /\ Len(lines) = Len(tb_rows) + 3
           /\ lines[Len(lines)] = <<>>
           /\ lines[Len(lines) - 1] = <<>>
           /\ \A i \in 1..(Len(tb_rows) + 1) : IsTableLine(lines[i])
           /\ cellsOfLine(lines[1]) = paddedRight(tb_rows[1], n)
           /\ cellsOfLine(lines[2]) = [i \in 1..n |-> <<"-", "-", "-">>]
           /\ \A i \in 2..Len(tb_rows) : cellsOfLine(lines[i + 1]) = paddedRight(tb_rows[i], n)

\* rows [[A, B], [1, 2], [3]] have been rendered
C12_Witness ==
    /\ tb_done
    /\ tb_rows = << <<<<"A">>, <<"B">>>>, <<<<"1">>, <<"2">>>>, <<<<"3">>>> >>
    /\ tb_md # <<>>

(***************************************************************************)
(* Construction of a raw block, then extract_blocks on it.                 *)
(*                                                                         *)
(* Block declares bbox: BBox, a tuple of four floats, and no validator;    *)
(* bbox_size, which raises ValueError for a negative width or height, is   *)
(* called by no constructor and by no function of the pipeline.            *)
(***************************************************************************)
Coordinates == {0, 50, 100}

BBoxes == {<<x0, y0, x1, y1>> : x0 \in Coordinates, y0 \in Coordinates,
                                x1 \in Coordinates, y1 \in Coordinates}

\* the raw blocks the constructors are asked for with bounding box bbox
BlocksWithBBox(bbox) ==
    { RawTextBlock(<<"a", " ", "b">>, bbox, 10, 400, 0, FALSE, FALSE),
      RawImageBlock(<<"i">>, bbox),
      RawTableBlock(<< <<<<"a">>>> >>, bbox),
      RawLinkBlock(<<"h", ":", "/", "/", "x", "/", "b", "/", "p">>, <<Span(<<"o", "k">>)>>, bbox) }

InitBBox ==
    /\ IdleOrder
    /\ IdleFilter
    /\ IdleText
    /\ IdleProc
    /\ IdleLater
    /\ config = DefaultConfig
    /\ ex_raw = <<>>
    /\ ex_ordered = <<>>
    /\ ex_pc = "construct"
    /\ ex_result = <<>>

\* BlockArray(url=..., blocks=[TextBlock(...) | ImageBlock(...) | ...]): pydantic
\* checks the types of the fields and nothing else
ConstructBlock ==
    /\ ex_pc = "construct"
    /\ \E bbox \in BBoxes : \E rb \in BlocksWithBBox(bbox) :
           ex_raw' = [url |-> <<"u", "1">>, blocks |-> <<rb>>]
    /\ ex_pc' = "start"
    /\ UNCHANGED <<config, ex_ordered, ex_result, procVars, orderVars, filterVars, textVars,
                   laterVars>>

NextBBox ==
    \/ ConstructBlock
    \/ NextExtract

SpecBBox == InitBBox /\ [][NextBBox]_vars

WellFormed(bbox) == bbox[3] >= bbox[1] /\ bbox[4] >= bbox[2]

\* C13: no raw block of negative width or height is ever constructed, and no
\* block of negative width or height is in the list _process_blocks builds.
C13_MalformedBBoxRejected ==
    /\ ex_pc # "construct" =>
           \A i \in DOMAIN ex_raw.blocks : WellFormed(ex_raw.blocks[i].bbox)
    /\ \A i \in DOMAIN pb_blocks : WellFormed(pb_blocks[i].bbox)

(***************************************************************************)
(* set_config and the import of src.processor.core                         *)
(*                                                                         *)
(* core.py binds its own name config with `from src.common.utils.config    *)
(* import config` when it is imported; set_config assigns the global of    *)
(* the module src.common.utils.config.                                     *)
(***************************************************************************)
MaxConfigLen == 2       \* raw blocks in the array of the run

\* a Config that differs from the loaded one in every setting of the pipeline
OtherConfig ==
    [reading_order_y_tolerance |-> 0, small_text_threshold |-> 50, bold_threshold |-> 10,
     header_threshold |-> 10, footer_threshold |-> 90, skip_patterns |-> <<<<"a">>>>,
     header_thresholds |-> <<<<1, 300>>>>]

ConfigBlocks ==
    { RawTextBlock(<<"a", " ", "b">>, BodyBox, 10, 400, 0, FALSE, FALSE),
      RawTextBlock(<<"c">>, <<0, 5, 60, 15>>, 20, 700, 0, FALSE, FALSE),
      RawImageBlock(<<"i">>, <<70, 49, 130, 100>>),
      RawLinkBlock(<<"h", ":", "/", "/", "x", "/", "b", "/", "p">>, <<Span(<<"o", "k">>)>>, <<0, 95, 60, 100>>),
      RawTableBlock(<< <<<<"a">>>> >>, <<0, 1, 60, 11>>) }

\* config = load_config(), when src.common.utils.config is imported; the name
\* config of core.py is not bound before core.py is imported
InitConfig ==
    /\ IdleEarlier
    /\ IdleCache
    /\ IdleHeading
    /\ IdleRuns
    /\ IdleSkip
    /\ IdleRender
    /\ IdleTable
    /\ IdleBold
    /\ config = DefaultConfig
    /\ cm_config = DefaultConfig
    /\ cm_imported = FALSE
    /\ cm_set = FALSE

\* from src.common.utils.config import config, in core.py
ImportCore ==
    /\ ~cm_imported
    /\ config' = cm_config
    /\ cm_imported' = TRUE
    /\ UNCHANGED <<earlierVars, tableVars, boldVars, cm_config, cm_set, renderVars, skipVars, runsVars, headingVars, cacheVars>>

\* set_config(new_config), between runs
SetConfig ==
    /\ ~cm_set
    /\ ex_pc = "idle"
    /\ cm_config' = OtherConfig
    /\ cm_set' = TRUE
    /\ UNCHANGED <<config, earlierVars, tableVars, boldVars, cm_imported, renderVars, skipVars, runsVars, headingVars, cacheVars>>

\* extract_blocks(raw_blocks) is called
CallExtract ==
    /\ cm_imported
    /\ ex_pc = "idle"
    /\ ex_raw' \in {[url |-> <<"u", "1">>, blocks |-> b] : b \in SeqsUpTo(ConfigBlocks, MaxConfigLen)}
    /\ ex_pc' = "start"
    /\ UNCHANGED <<config, ex_ordered, ex_result, orderVars, filterVars, textVars, procVars,
                   laterVars>>

NextConfig ==
    \/ ImportCore
    \/ SetConfig
    \/ CallExtract
    \/ NextExtract

SpecConfig == InitConfig /\ [][NextConfig]_vars

\* C14: a run of extract_blocks that begins after set_config(c) works with the
\* values of c: the reading order, the header and footer thresholds and the
\* settings the classification and the skipping read are those of c.
C14_SetConfigTakesEffect ==
    (cm_set /\ ex_pc \in {"process", "done"}) =>
        /\ config = cm_config
        /\ ex_ordered = reading_order(ex_raw, cm_config)
        /\ header_threshold = max_y(ex_ordered) * cm_config.header_threshold
        /\ footer_threshold = max_y(ex_ordered) * cm_config.footer_threshold

(***************************************************************************)
(* The markdown of two ParsedBlocks objects whose blocks are equal.        *)
(***************************************************************************)
MaxRenderLen == 2       \* blocks in the list rendered

\* Span(text=..., formats={...})
StyledSpan(text, formats) == [text |-> text, formats |-> formats]

\* ParagraphBlock(spans=..., heading=..., is_code=..., bbox=...) of processor/models.py
StyledParagraph(spans, heading, is_code) ==
    [type |-> "paragraph", spans |-> spans, heading |-> heading, is_code |-> is_code,
     bbox |-> BodyBox]

\* the formats of Span, and one the renderer does not know
FormatNames == {"bold", "italic", "code", "none", "sup"}

\* the orders in which the interpreter may meet the members of a set of formats
IterationOrders ==
    {p \in [1..Cardinality(FormatNames) -> FormatNames] :
        \A i, j \in DOMAIN p : i # j => p[i] # p[j]}

RenderBlocks ==
    { StyledParagraph(<<StyledSpan(<<"a">>, {"bold"}), StyledSpan(<<".">>, {"none"})>>, 0, FALSE),
      StyledParagraph(<<StyledSpan(<<"a", " ">>, {"italic"}), StyledSpan(<<"b">>, {"sup"})>>, 0, FALSE),
      StyledParagraph(<<StyledSpan(<<"a">>, {"none"})>>, 2, FALSE),
      StyledParagraph(<<StyledSpan(<<"a">>, {"none"})>>, 0, TRUE),
      \* a span that carries two formats
      [type |-> "link", href |-> <<"h", ":", "/", "/", "x">>, bbox |-> BodyBox,
       spans |-> <<StyledSpan(<<"a">>, {"bold", "code"})>>],
      [type |-> "link", href |-> <<"h", ":", "/", "/", "x">>, bbox |-> BodyBox,
       spans |-> <<StyledSpan(<<"a">>, {"sup"}), StyledSpan(<<"b">>, {"none"})>>],
      [type |-> "list", bbox |-> BodyBox, ordered |-> TRUE, level |-> 1,
       items |-> << <<StyledSpan(<<"a">>, {"none"})>>, <<StyledSpan(<<"b">>, {"italic"})>> >>],
      ImageBlock(RawImageBlock(<<"i">>, BodyBox)),
      TableBlock(RawTableBlock(<< <<<<"A">>, <<"B">>>>, <<<<"1">>>> >>, BodyBox)) }

InitRender ==
    /\ IdleEarlier
    /\ IdleCache
    /\ IdleHeading
    /\ IdleRuns
    /\ IdleSkip
    /\ IdleConfig
    /\ IdleTable
    /\ IdleBold
    /\ config = DefaultConfig
    /\ rd_blocks \in SeqsUpTo(RenderBlocks, MaxRenderLen)
    /\ rd_first = <<>>
    /\ rd_second = <<>>
    /\ rd_count = 0

\* ParsedBlocks(url=..., blocks=rd_blocks).markdown, on the first object
RenderFirst ==
    /\ rd_count = 0
    /\ \E order \in IterationOrders : rd_first' = markdown(rd_blocks, order)
    /\ rd_count' = 1
    /\ UNCHANGED <<config, earlierVars, configVars, tableVars, boldVars, rd_blocks, rd_second, skipVars, runsVars, headingVars, cacheVars>>

\* the same on the second object, in this or in another interpreter
RenderSecond ==
    /\ rd_count = 1
    /\ \E order \in IterationOrders : rd_second' = markdown(rd_blocks, order)
    /\ rd_count' = 2
    /\ UNCHANGED <<config, earlierVars, configVars, tableVars, boldVars, rd_blocks, rd_first, skipVars, runsVars, headingVars, cacheVars>>

NextRender ==
    \/ RenderFirst
    \/ RenderSecond

SpecRender == InitRender /\ [][NextRender]_vars

\* C15: two lists of equal blocks render to the same markdown string.
C15_RenderingDeterministic ==
    rd_count = 2 => rd_first = rd_second

(***************************************************************************)
(* _should_skip_paragraph on one candidate paragraph.                      *)
(***************************************************************************)
MaxSkipLen == 2         \* characters in the text of the candidate

SkipChars == {"x", "X", "a"}

SkipPatterns == {<<<<"x">>>>, <<<<"X">>>>, <<<<"a", "x">>, <<"X", "a">>>>}

InitSkip ==
    /\ IdleEarlier
    /\ IdleCache
    /\ IdleHeading
    /\ IdleRuns
    /\ IdleRender
    /\ IdleConfig
    /\ IdleTable
    /\ IdleBold
    /\ config \in {[DefaultConfig EXCEPT !.skip_patterns = p] : p \in SkipPatterns}
    /\ sk_pb \in {ParagraphBlock(t, FALSE, FALSE, h, FALSE, BodyBox) :
                     t \in SeqsUpTo(SkipChars, MaxSkipLen) \ {<<>>}, h \in {0, 2}}
    /\ sk_tracker \in {NewTracker, add(NewTracker, <<"a">>, 0)}
    /\ sk_result = FALSE
    /\ sk_done = FALSE

ShouldSkipParagraph ==
    /\ ~sk_done
    /\ sk_result' = _should_skip_paragraph(sk_pb, sk_tracker, config)
    /\ sk_done' = TRUE
    /\ UNCHANGED <<config, earlierVars, renderVars, configVars, tableVars, boldVars, sk_pb, sk_tracker, runsVars, headingVars, cacheVars>>

NextSkip == ShouldSkipParagraph

SpecSkip == InitSkip /\ [][NextSkip]_vars

\* C16: a candidate paragraph whose text holds a configured skip pattern, the
\* case of the letters of both ignored, is dropped, heading or not.
C16_SkipPatternAnyCase ==
    (sk_done /\ \E i \in DOMAIN config.skip_patterns :
                    contains(lower(config.skip_patterns[i]), lower(sk_pb.text)))
        => sk_result = TRUE

\* the places of the blocks of the ordered array whose top-y is above the
\* fraction h (in percent) of the page or below the fraction f of the page,
\* the page reaching down to the largest bottom-y of the array
placesOutside(h, f) ==
    {i \in DOMAIN ex_ordered.blocks :
        \/ ex_ordered.blocks[i].bbox[2] * 100 < h * max_y(ex_raw)
        \/ ex_ordered.blocks[i].bbox[2] * 100 > f * max_y(ex_raw)}

MaxRunLen == 2          \* raw blocks in the array of a run

Runs == {1, 2}

\* rb.bbox[1] < header_threshold or rb.bbox[1] > footer_threshold, the two
\* thresholds in hundredths
inBand(rb, ht, ft) == rb.bbox[2] * 100 < ht \/ rb.bbox[2] * 100 > ft

\* for pb in _handle_text_block(rb, metrics): the loop, on the state st
RECURSIVE paragraphsLoop(_, _, _)
paragraphsLoop(ps, st, cfg) ==
    IF ps = <<>> THEN st
    ELSE paragraphsLoop(Tail(ps),
                        IF _should_skip_paragraph(Head(ps), st.tracker, cfg) THEN st
                        ELSE appendParagraph(Head(ps), st.blocks, st.tracker),
                        cfg)

\* the body of `for rb in raw_blocks.blocks`, on the state st
rawBlockStep(rb, st, metrics, ht, ft, cfg) ==
    IF inBand(rb, ht, ft) THEN st
    ELSE CASE rb.type = "text" ->
                  IF rb.bbox[3] - rb.bbox[1] < MinTextWidth THEN st
                  ELSE paragraphsLoop(_handle_text_block(rb, metrics, cfg), st, cfg)
           [] rb.type = "image" ->
                  IF is_image_duplicate(st.tracker, rb.src) THEN st
                  ELSE [blocks |-> Append(st.blocks, ImageBlock(rb)),
                        tracker |-> add_image(st.tracker, rb.src)]
           [] rb.type = "table" ->
                  IF is_table_duplicate(st.tracker, rb.rows) THEN st
                  ELSE [blocks |-> Append(st.blocks, TableBlock(rb)),
                        tracker |-> add_table(st.tracker, rb.rows)]
           [] OTHER -> st

\* the raw blocks, the metrics and the two thresholds extract_blocks hands to
\* _process_blocks
processArgs(raw_blocks, cfg) ==
    LET ordered == reading_order(raw_blocks, cfg)
    IN [blocks |-> ordered.blocks,
        metrics |-> compute_page_metrics(ordered),
        ht |-> IF ordered.blocks # <<>> THEN max_y(ordered) * cfg.header_threshold ELSE 0,
        ft |-> IF ordered.blocks # <<>> THEN max_y(ordered) * cfg.footer_threshold ELSE 0]

allocate_first(objects) == 1

\* the place of a newly created object
allocate(objects) == Len(objects) + 1

\* objects with the object at place at set to value, the sequence grown if needed
store(objects, at, value) ==
    [i \in 1..(IF at > Len(objects) THEN at ELSE Len(objects)) |->
        IF i = at THEN value ELSE objects[i]]

RunBlocks ==
    { RawTextBlock(<<"a", " ", "b">>, BodyBox, 10, 400, 0, FALSE, FALSE),
      RawTextBlock(<<"A", " ", " ", "b">>, <<0, 20, 60, 30>>, 10, 400, 2, FALSE, FALSE),
      RawImageBlock(<<"i">>, <<0, 30, 60, 40>>),
      RawTableBlock(<< <<<<"a">>>> >>, <<0, 40, 60, 50>>) }

InitRuns ==
    /\ IdleEarlier
    /\ IdleCache
    /\ IdleHeading
    /\ IdleSkip
    /\ IdleRender
    /\ IdleConfig
    /\ IdleTable
    /\ IdleBold
    /\ config = DefaultConfig
    /\ rn_raw \in [Runs -> {[url |-> <<"u", "1">>, blocks |-> b] : b \in SeqsUpTo(RunBlocks, MaxRunLen)}]
    /\ rn_trackers = <<>>
    /\ rn_lists = <<>>
    /\ rn_ref = [r \in Runs |-> [tracker |-> 0, blocks |-> 0]]
    /\ rn_pos = [r \in Runs |-> 0]
    /\ rn_pc = [r \in Runs |-> "start"]

\* blocks: list[BlockItem] = []; tracker = _DuplicateTracker()
EnterProcessBlocks(r) ==
    /\ rn_pc[r] = "start"
    /\ rn_lists' = store(rn_lists, allocate(rn_lists), <<>>)
    /\ rn_trackers' = store(rn_trackers, allocate(rn_trackers), NewTracker)
    /\ rn_ref' = [rn_ref EXCEPT ![r] = [tracker |-> allocate(rn_trackers),
                                        blocks |-> allocate(rn_lists)]]
    /\ rn_pc' = [rn_pc EXCEPT ![r] = "process"]
    /\ UNCHANGED <<config, earlierVars, skipVars, renderVars, configVars, tableVars, boldVars, rn_raw, rn_pos, headingVars, cacheVars>>

\* one turn of `for rb in raw_blocks.blocks`
TakeRawBlock(r) ==
    /\ rn_pc[r] = "process"
    /\ LET args == processArgs(rn_raw[r], config)
       IN /\ rn_pos[r] < Len(args.blocks)
          /\ LET st == rawBlockStep(args.blocks[rn_pos[r] + 1],
                                    [blocks |-> rn_lists[rn_ref[r].blocks],
                                     tracker |-> rn_trackers[rn_ref[r].tracker]],
                                    args.metrics, args.ht, args.ft, config)
             IN /\ rn_lists' = store(rn_lists, rn_ref[r].blocks, st.blocks)
                /\ rn_trackers' = store(rn_trackers, rn_ref[r].tracker, st.tracker)
    /\ rn_pos' = [rn_pos EXCEPT ![r] = @ + 1]
    /\ UNCHANGED <<config, earlierVars, skipVars, renderVars, configVars, tableVars, boldVars, rn_raw, rn_ref, rn_pc, headingVars, cacheVars>>

\* return blocks
ReturnBlocks(r) ==
    /\ rn_pc[r] = "process"
    /\ rn_pos[r] = Len(rn_raw[r].blocks)
    /\ rn_pc' = [rn_pc EXCEPT ![r] = "done"]
    /\ UNCHANGED <<config, earlierVars, skipVars, renderVars, configVars, tableVars, boldVars, rn_raw, rn_trackers, rn_lists, rn_ref, rn_pos, headingVars, cacheVars>>

NextRuns ==
    \E r \in Runs :
        \/ EnterProcessBlocks(r)
        \/ TakeRawBlock(r)
        \/ ReturnBlocks(r)

SpecRuns == InitRuns /\ [][NextRuns]_vars

\* the list a run on raw_blocks builds when no other run is made
RECURSIVE processLoop(_, _, _, _)
processLoop(raw, st, args, cfg) ==
    IF raw = <<>> THEN st
    ELSE processLoop(Tail(raw),
                     rawBlockStep(Head(raw), st, args.metrics, args.ht, args.ft, cfg),
                     args, cfg)

aloneBlocks(raw_blocks, cfg) ==
    processLoop(processArgs(raw_blocks, cfg).blocks, [blocks |-> <<>>, tracker |-> NewTracker],
                processArgs(raw_blocks, cfg), cfg).blocks

topYs(blocks) == {blocks[i].bbox[2] : i \in DOMAIN blocks}

\* whether the top-y values y1 <= y2 of two blocks are chained: walking up the
\* top-y values of the array from y1 to y2, no value is followed by a step of
\* more than y_tol
chained(blocks, y1, y2, y_tol) ==
    \A y \in topYs(blocks) :
        (y1 <= y /\ y < y2) => \E z \in topYs(blocks) : y < z /\ z <= y + y_tol

\* whether two blocks are on the same line of the array
sameLine(blocks, a, b, y_tol) ==
    IF a.bbox[2] <= b.bbox[2]
    THEN chained(blocks, a.bbox[2], b.bbox[2], y_tol)
    ELSE chained(blocks, b.bbox[2], a.bbox[2], y_tol)

\* C20: the array reading_order returns is the concatenation of lines, each
\* sorted by left-x; blocks adjacent in (top-y, left-x) order are on one line
\* iff their top-y values differ by at most y_tol, so lines are chains, and
\* every block of an earlier line has a top-y strictly smaller than every block
\* of a later line.
C20_LinesByChaining ==
    ro_calls >= 1 =>
        LET out == ro_out.blocks
            y_tol == config.reading_order_y_tolerance
        IN \A i, j \in DOMAIN out :
               i < j =>
                   IF sameLine(ro_prev.blocks, out[i], out[j], y_tol)
                   THEN out[i].bbox[1] <= out[j].bbox[1]
                   ELSE out[i].bbox[2] < out[j].bbox[2]

\* one line of three blocks that spans more than the tolerance, returned with
\* its lowest block first
C20_Witness ==
    /\ ro_calls = 1
    /\ config.reading_order_y_tolerance = 1
    /\ Len(ro_out.blocks) = 3
    /\ ro_out.blocks[1].bbox[2] = 2
    /\ ro_out.blocks[1].bbox[1] = 0
    /\ ro_out.blocks[2].bbox[2] = 0
    /\ ro_out.blocks[2].bbox[1] = 5
    /\ ro_out.blocks[3].bbox[2] = 1
    /\ ro_out.blocks[3].bbox[1] = 5


(***************************************************************************)
(* _determine_heading_level over the tables of header_thresholds.          *)
(***************************************************************************)
MaxTableLen == 3        \* entries of header_thresholds

HeadingLevels == {1, 2, 3}

Multipliers == {120, 150, 200}

\* the dicts of up to MaxTableLen entries, as the sequences of their items: no
\* level is a key twice
HeaderThresholds ==
    {t \in SeqsUpTo(HeadingLevels \X Multipliers, MaxTableLen) :
        \A i, j \in DOMAIN t : i # j => t[i][1] # t[j][1]}

HeadingBlocks ==
    {RawTextBlock(<<"a">>, BodyBox, fs, 400, h, FALSE, FALSE) :
        fs \in {10, 12, 15, 20, 30}, h \in {0, 3}}

InitHeading ==
    /\ IdleEarlier
    /\ IdleCache
    /\ IdleRuns
    /\ IdleSkip
    /\ IdleRender
    /\ IdleConfig
    /\ IdleTable
    /\ IdleBold
    /\ hd_table \in HeaderThresholds
    /\ config = [DefaultConfig EXCEPT !.header_thresholds = hd_table]
    /\ hd_block \in HeadingBlocks
    /\ hd_level = 0
    /\ hd_done = FALSE

DetermineHeadingLevel ==
    /\ ~hd_done
    /\ hd_level' = _determine_heading_level(hd_block, ClassifierMetrics, config)
    /\ hd_done' = TRUE
    /\ UNCHANGED <<config, earlierVars, runsVars, skipVars, renderVars, configVars, tableVars, boldVars, hd_block, hd_table, cacheVars>>

NextHeading == DetermineHeadingLevel

SpecHeading == InitHeading /\ [][NextHeading]_vars

\* the same dict with its items stored in another order
reorderings(items) ==
    {q \in [DOMAIN items -> {items[i] : i \in DOMAIN items}] :
        \A i \in DOMAIN items : \E j \in DOMAIN items : q[j] = items[i]}

\* the places of the entries the font size of the block meets
metEntries(block, metrics, items) ==
    {i \in DOMAIN items : geMeanTimes(block.font_size, metrics.font_size, items[i][2])}

\* the level the claim names: the block's own level when it is not 0, else the
\* level of an entry met that has the largest multiplier among the entries
\* met, else 0
IsLevelOfLargestMet(level, block, metrics, items) ==
    IF block.heading_level # 0 THEN level = block.heading_level
    ELSE IF metEntries(block, metrics, items) = {} THEN level = 0
    ELSE \E i \in metEntries(block, metrics, items) :
             /\ \A j \in metEntries(block, metrics, items) : items[j][2] <= items[i][2]
             /\ level = items[i][1]

\* C21 as stated: the heading level is the block's own level when that is not
\* 0, else the level of the entry of largest multiplier that the font size
\* meets, else 0, and the same level is returned however the entries of the
\* table are ordered.
C21_LevelWhateverTheOrder ==
    hd_done =>
        /\ IsLevelOfLargestMet(hd_level, hd_block, ClassifierMetrics, hd_table)
        /\ \A q \in reorderings(hd_table) :
               _determine_heading_level(hd_block, ClassifierMetrics,
                   [config EXCEPT !.header_thresholds = q]) = hd_level

\* whether no two entries have the same multiplier
distinctMultipliers(items) ==
    \A i, j \in DOMAIN items : i # j => items[i][2] # items[j][2]

\* C21, amended: the level is the block's own level when that is above 0, else
\* that of the entry of largest multiplier the font size meets, the first
\* stored of them when several entries have that multiplier, else 0; for a
\* table whose multipliers differ the level is the same however the entries
\* are ordered.
C21_FirstStoredOfLargestMet ==
    hd_done =>
        /\ IsLevelOfLargestMet(hd_level, hd_block, ClassifierMetrics, hd_table)
        /\ hd_block.heading_level = 0 =>
               \A i \in metEntries(hd_block, ClassifierMetrics, hd_table) :
                   (\A j \in metEntries(hd_block, ClassifierMetrics, hd_table) :
                        hd_table[j][2] <= hd_table[i][2])
                       => \E k \in 1..i : hd_table[k][1] = hd_level /\ hd_table[k][2] = hd_table[i][2]
        /\ distinctMultipliers(hd_table) =>
               \A q \in reorderings(hd_table) :
                   _determine_heading_level(hd_block, ClassifierMetrics,
                       [config EXCEPT !.header_thresholds = q]) = hd_level

\* a block of no level of its own whose font size meets the three entries of a
\* table stored in rising order of multiplier, two of them of the largest one
C21_Witness ==
    /\ hd_done
    /\ hd_block.heading_level = 0
    /\ hd_block.font_size = 20
    /\ hd_table = <<<<3, 120>>, <<2, 200>>, <<1, 200>>>>
    /\ hd_level = 2

(***************************************************************************)
(* The order of the filters of filter_blocks.                              *)
(***************************************************************************)

\* the blocks of a list that the first two filters leave
survivors(blocks) ==
    SubSeqAt(blocks,
             {i \in DOMAIN blocks :
                 ~languageLinkDeleted(blocks[i]) /\ ~commonBsDeleted(blocks[i])},
             1)

\* C22: filter_blocks removes the language links, then the boilerplate links,
\* then the links of an href met before: the list left holds, of the blocks the
\* first two filters leave, every block that is no link and, for every href,
\* the first link of that href, so a link the first two filters remove never
\* makes a later link of its href a duplicate.
C22_DuplicatesAmongSurvivors ==
    fl_last = "filter_blocks" =>
        LET kept == survivors(fl_before)
        IN /\ fl_blocks = SubSeqAt(kept,
                              {i \in DOMAIN kept :
                                  IsLink(kept[i]) =>
                                      \A j \in 1..(i - 1) :
                                          ~(IsLink(kept[j]) /\ kept[j].href = kept[i].href)},
                              1)
           /\ \A i \in DOMAIN kept :
                  IsLink(kept[i]) =>
                      \E j \in DOMAIN fl_blocks :
                          IsLink(fl_blocks[j]) /\ fl_blocks[j].href = kept[i].href

\* a language link, a boilerplate link and then a plain link, the three of one
\* href: the plain link alone is left
C22_Witness ==
    /\ fl_last = "filter_blocks"
    /\ Len(fl_before) = 3
    /\ \A i \in 1..3 : IsLink(fl_before[i])
    /\ fl_before[1].href = fl_before[3].href
    /\ fl_before[2].href = fl_before[3].href
    /\ languageLinkDeleted(fl_before[1])
    /\ commonBsDeleted(fl_before[2])
    /\ fl_blocks = <<fl_before[3]>>

(***************************************************************************)
(* The texts the tracker has seen, against the candidates dropped.         *)
(***************************************************************************)

\* the normalized texts registered so far in the run: those of the paragraphs
\* of the list and those of the paragraphs deleted from it
registeredTexts ==
    {normalize(pb_blocks[i].text) : i \in {k \in DOMAIN pb_blocks : pb_blocks[k].type = "paragraph"}}
        \cup {normalize(gh_deleted[i].text) : i \in DOMAIN gh_deleted}

\* the candidate pb is taken in this step
TakesCandidate(pb) == pending # <<>> /\ pb = Head(pending) /\ pending' = Tail(pending)

AppendsAtMostOne ==
    \/ pb_blocks' = pb_blocks
    \/ \E b \in {pb_blocks'[Len(pb_blocks')] : k \in {1} \cap DOMAIN pb_blocks'} :
           pb_blocks' = Append(pb_blocks, b)

\* the step deletes the block at place k and appends the heading that is the
\* candidate taken
DeletesForHeading(k) ==
    /\ pending # <<>>
    /\ Head(pending).heading > 0
    /\ pb_blocks[k].type = "paragraph"
    /\ pb_blocks[k].heading = 0
    /\ normalize(pb_blocks[k].text) = normalize(Head(pending).text)
    /\ pb_blocks' = Append(delAt(pb_blocks, k), Head(pending))
    /\ gh_deleted' = Append(gh_deleted, pb_blocks[k])

MaxCacheLen == 2        \* blocks in the list of the document
MaxReads == 2           \* reads of doc.markdown

\* the links the filters are tried on, and a paragraph; every span has the
\* one format "none"
CacheBlocks ==
    {b \in FilterBlocks : b.type = "link"}
        \cup {StyledParagraph(<<StyledSpan(<<"a">>, {"none"})>>, 0, FALSE)}

\* an order of the formats; no span of CacheBlocks has two of them
CacheOrder == <<"bold", "italic", "code", "none", "sup">>

InitCache ==
    /\ IdleEarlier
    /\ IdleHeading
    /\ IdleRuns
    /\ IdleSkip
    /\ IdleRender
    /\ IdleConfig
    /\ IdleTable
    /\ IdleBold
    /\ config = DefaultConfig
    /\ ch_blocks \in SeqsUpTo(CacheBlocks, MaxCacheLen)
    /\ ch_cache = [set |-> FALSE, value |-> <<>>]
    /\ ch_read = <<>>
    /\ ch_reads = 0
    /\ ch_filtered = FALSE
    /\ ch_last = "none"

\* doc.markdown: cached_property calls the function on the first read and
\* returns the value kept on every later one
ReadMarkdown ==
    /\ ch_reads < MaxReads
    /\ ch_cache' = IF ch_cache.set THEN ch_cache
                   ELSE [set |-> TRUE, value |-> markdown(ch_blocks, CacheOrder)]
    /\ ch_read' = ch_cache'.value
    /\ ch_reads' = ch_reads + 1
    /\ ch_last' = "read"
    /\ UNCHANGED <<config, earlierVars, headingVars, runsVars, skipVars, renderVars, configVars, tableVars, boldVars, ch_blocks, ch_filtered>>

\* filter_blocks(doc.blocks)
FilterDocument ==
    /\ ~ch_filtered
    /\ ch_blocks' = filter_blocks(ch_blocks)
    /\ ch_filtered' = TRUE
    /\ ch_last' = "filter"
    /\ UNCHANGED <<config, earlierVars, headingVars, runsVars, skipVars, renderVars, configVars, tableVars, boldVars, ch_cache, ch_read, ch_reads>>

NextCache == ReadMarkdown \/ FilterDocument

SpecCache == InitCache /\ [][NextCache]_vars

\* C25: the string a read of doc.markdown returns is the rendering of the list
\* the document holds at that read, also when filter_blocks has removed blocks
\* from the list since an earlier read.
C25_MarkdownCurrent ==
    ch_last = "read" => ch_read = markdown(ch_blocks, CacheOrder)

(***************************************************************************)
(* The non-heading paragraphs of the list, one against the other.          *)
(***************************************************************************)

normalizedGrid(rows) == [i \in DOMAIN rows |-> normalizedRow(rows[i])]

\* the rows of the tables of a list, in order
RECURSIVE rowsOfTables(_)
rowsOfTables(bl) ==
    IF bl = <<>> THEN <<>>
    ELSE (IF Head(bl).type = "table" THEN <<Head(bl).rows>> ELSE <<>>) \o rowsOfTables(Tail(bl))

\* C27: a table is dropped only if an earlier table of the run has the same
\* rows, cell for cell, once every cell is lower-cased and its whitespace
\* collapsed; tables whose normalized grids differ, be it in the division of
\* the text into cells, are all kept, with their rows as they were.
C27_TableDroppedOnlyIfSameGrid ==
    rowsOfTables(pb_blocks)
        = SubSeqAt(gh_tables,
                   {i \in DOMAIN gh_tables :
                       \A j \in 1..(i - 1) :
                           normalizedGrid(gh_tables[j]) # normalizedGrid(gh_tables[i])},
                   1)
====
